---- MODULE Spec2Model ----
(***************************************************************************)
(* Cognitive-Triangulation-Pipeline: a model of the oracle (Anthropic)     *)
(* client's request scheduler and retry loop, of the transactional outbox  *)
(* publisher and its leadership lease, of the file-discovery lease with    *)
(* check-on-write, and of the Phase B batch packer.                        *)
(***************************************************************************)
EXTENDS Integers, Sequences, FiniteSets, TLC

VARIABLES
    \* ---- oracle client (AnthropicClient)
    activeRequests,   \* this.activeRequests
    requestQueue,     \* this.requestQueue, a sequence of request ids
    requests,         \* per request: phase, loop index i, slot, waited, error
    startOrder,       \* request ids in the order _processQueue started them
    scheduled,        \* number of _scheduleRequest calls made so far
    failures,         \* number of failed HTTP attempts so far (bounded)
    \* ---- one call() as its caller and the server see it (history)
    attemptLog,       \* per request: the outcome of each HTTP attempt, in order
    settlements,      \* per request: how often resolve or reject was called
    held,             \* per request: activeRequests++ minus activeRequests--
    outcome,          \* per request: what call() did, and the error it wrapped
    timers,           \* per request: the delays its setTimeout calls were given
    \* ---- transactional outbox and its publishers
    outbox,           \* the outbox table: row id -> [queue, status, pubAt]
    enqueued,         \* the broker's log: row ids in the order they were acked
    publishers,       \* per publisher instance: pc, batch, tickLog, leader
    leaderLease,      \* holder of the key outbox-publisher-leader (0: unset)
    crashes,          \* publisher crashes so far (bounded)
    crashedAfterAck,  \* rows whose ack was followed by a crash before the update
    \* ---- file discovery: the lease discovery-lock:{targetDir} and Phase B
    discoveryLease,   \* owner token stored in the lease key (0: unset)
    workers,          \* per batcher: pc, the batch it is about to emit, sawOwner
    emitted,          \* batches enqueued: [worker, batch, owner]
    \* ---- Phase B batch packing
    files,            \* token sizes of the files consumed, in input order
    maxBatchTokens,   \* MAX_BATCH_TOKENS
    maxBatchFiles,    \* MAX_BATCH_FILES
    pos,              \* number of files consumed so far
    current,          \* the open batch: 0-based file indices
    batches,          \* the batches emitted so far
    walkerDone,       \* the walker has completed
    \* ---- relational store: POIs, evidence, reconciliation
    pois,             \* table pois: the poi_ids present
    evidence,         \* table relationship_evidence: rows [key, source, confidence]
    reconEvents,      \* reconciliation-queue: events [key, rows] forwarded so far
    processed,        \* events the reconciliation worker handled at least once
    reprocessed,      \* events it handled at least twice
    relationships,    \* table relationships: key -> confidence_score (NoRow: absent)
    graphOutbox,      \* keys with an outbox event addressed to graph-builder
    \* ---- pipeline runs and the three stores
    fileRows,         \* table files: path -> [status, run] ("none": no row)
    dirSummaries,     \* table directory_summaries: the directory_paths present
    graph,            \* graph store: the nodes (poi_ids)
    clearPc,          \* clearAllDatabases: 0 not running, k its next statement
    run,              \* the current run: id, entry point, phase, stores cleared
    \* ---- config.js: one load of the module
    env,              \* process.env: name -> value (set, text)
    config,           \* the config object
    loadPc,           \* where the load is: start, built, checked, exported, exited
    exitCode,         \* the code process.exit was called with (NoExit: not called)
    \* ---- pipelineApi: the registry and the runs of startPipelineAsync
    activePipelines,  \* this.activePipelines: pipelineId -> the record set (0: none)
    records,          \* the status record each run created, by run
    apiRuns,          \* per run: where it is, its factory, what it saw so far
    broadcasts,       \* calls of broadcastUpdate so far, by pipelineId
    statusCall,       \* the latest call of updatePipelineStatus from outside a run
    \* ---- ProductionAgentFactory: one factory and the calls made on it
    deps,             \* this.dbManager ... this.neo4jDriver: null, set, open, closed
    initDone,         \* an initialize() has run to its end
    factoryCalls,     \* per call: the operation, where it is, what it found
    started,          \* this.workers, this.agents, and what is running
    shutdown          \* the latest stopPipeline and the cleanup after it

oracleVars == <<activeRequests, requestQueue, requests, startOrder, scheduled, failures>>
callVars == <<attemptLog, settlements, held, outcome, timers>>
outboxVars == <<outbox, enqueued, publishers, leaderLease, crashes, crashedAfterAck>>

leaseVars == <<discoveryLease, workers, emitted>>
batchVars == <<files, maxBatchTokens, maxBatchFiles, pos, current, batches, walkerDone>>
reconVars == <<pois, evidence, reconEvents, processed, reprocessed, relationships,
               graphOutbox>>
pipelineVars == <<fileRows, dirSummaries, graph, clearPc, run>>
configVars == <<env, config, loadPc, exitCode>>
apiVars == <<activePipelines, records, apiRuns, broadcasts, statusCall>>
factoryVars == <<deps, initDone, factoryCalls, started, shutdown>>
notClientVars ==
    <<outboxVars, leaseVars, batchVars, reconVars, pipelineVars, configVars,
      apiVars, factoryVars>>
notOracleVars == <<callVars, notClientVars>>
notOutboxVars ==
    <<oracleVars, callVars, leaseVars, batchVars, reconVars, pipelineVars,
      configVars, apiVars, factoryVars>>
notLeaseVars ==
    <<oracleVars, callVars, outboxVars, batchVars, reconVars, pipelineVars,
      configVars, apiVars, factoryVars>>
notBatchVars ==
    <<oracleVars, callVars, outboxVars, leaseVars, reconVars, pipelineVars,
      configVars, apiVars, factoryVars>>
notReconVars ==
    <<oracleVars, callVars, outboxVars, leaseVars, batchVars, pipelineVars,
      configVars, apiVars, factoryVars>>
\* What no step of a run or of clearAllDatabases writes.
notStoreVars ==
    <<oracleVars, callVars, leaseVars, batchVars, enqueued, publishers,
      leaderLease, crashes, crashedAfterAck, processed, reprocessed,
      configVars, apiVars, factoryVars>>

vars == <<oracleVars, callVars, outboxVars, leaseVars, batchVars, reconVars,
          pipelineVars, configVars, apiVars, factoryVars>>

(***************************************************************************)
(* Bounds of the model                                                     *)
(***************************************************************************)
NumRequests == 6      \* calls of call()/query()/createChatCompletion()
MaxFailures == 1      \* failed HTTP attempts over the whole run
MaxRows == 3          \* outbox rows inserted in a run
MaxEnqueues == 4      \* broker acks in a run
MaxCrashes == 1       \* publisher crashes in a run
PollLimit == 2        \* the N of the publisher's LIMIT N
NumPublishers == 2    \* startPipeline calls in a run
NumWorkers == 2       \* batcher workers competing for the discovery lease
NumBatches == 2       \* batches of one sweep of the target directory
MaxFileCount == 3     \* files consumed by Phase B
MaxLimit == 3         \* largest MAX_BATCH_TOKENS tried
MaxFilesPerBatch == 2 \* largest MAX_BATCH_FILES tried
NumCalls == 1         \* calls of call() whose attempts are recorded
MaxAttemptFailures == 6 \* failed HTTP attempts while attempts are recorded
MaxEvidence == 2      \* rows of relationship_evidence in a run
MaxReconEvents == 2   \* events forwarded to the reconciliation queue in a run
MaxRuns == 3          \* pipeline runs started one after the other
NumApiRuns == 2       \* calls of startPipelineAsync, which may overlap
NumFactoryCalls == 2  \* calls made on one ProductionAgentFactory
NumCallers == 5       \* concurrent callers of the oracle under fair scheduling
MaxStatusCalls == 2   \* calls of updatePipelineStatus from outside a run

(***************************************************************************)
(* Oracle client: constants of the constructor and of the retry loop       *)
(***************************************************************************)
maxConcurrentRequests == 4
retries == 5
delay == 2000

RequestIds == 1..NumRequests

\* An error object as _makeRequest rejects with it: status and code are the
\* fields _isRetryableError reads; 0 and "" stand for `undefined`.
HttpError(s) == [status |-> s, code |-> "", message |-> "HTTP"]
SocketError(c) == [status |-> 0, code |-> c, message |-> "socket"]
TimeoutError == [status |-> 0, code |-> "", message |-> "Request timeout"]
NoError == [status |-> 0, code |-> "", message |-> ""]

\* The rejections one HTTP attempt can end with.
AttemptErrors ==
    {HttpError(503), HttpError(400), SocketError("ECONNRESET"), TimeoutError}

AlwaysRetryable(error) == TRUE
_isRetryableError(error) ==
    \/ error.status >= 500
    \/ error.code \in {"ECONNRESET", "ETIMEDOUT", "ENOTFOUND", "EAI_AGAIN"}

\* The guard of _processQueue: it returns at once unless this holds.
CanStartNoCap(active, queue) == Len(queue) # 0
CanStart(active, queue) ==
    ~(active >= maxConcurrentRequests \/ Len(queue) = 0)

\* requestQueue.shift(): <<the element taken, the queue left>>.
Pop(queue) == <<queue[Len(queue)], SubSeq(queue, 1, Len(queue) - 1)>>
Shift(queue) == <<Head(queue), Tail(queue)>>

\* _processQueue on (activeRequests, requestQueue): the request it starts
\* (0 when it returns early) and the two fields afterwards.
_processQueue(active, queue) ==
    IF CanStart(active, queue)
    THEN [started |-> Shift(queue)[1], active |-> active + 1,
          queue |-> Shift(queue)[2]]
    ELSE [started |-> 0, active |-> active, queue |-> queue]

\* The request table after _processQueue has started `id` (0: none): the
\* first HTTP attempt is made synchronously, with loop index i = 0.
Started(reqs, id) ==
    IF id = 0 THEN reqs
    ELSE [reqs EXCEPT ![id].phase = "inflight", ![id].i = 0, ![id].slot = TRUE]

InitOracle ==
    /\ activeRequests = 0
    /\ requestQueue = <<>>
    /\ requests = [r \in RequestIds |->
                     [phase |-> "new", i |-> 0, slot |-> FALSE,
                      waited |-> FALSE, error |-> NoError]]
    /\ startOrder = <<>>
    /\ scheduled = 0
    /\ failures = 0

\* _scheduleRequest: push, then _processQueue.  Ids are given in call order;
\* `limit` bounds the number of calls made in a run.
_scheduleRequest(limit) ==
    /\ scheduled < limit
    /\ LET id == scheduled + 1
           pq == _processQueue(activeRequests, Append(requestQueue, id))
           queued == [requests EXCEPT ![id].phase = "queued",
                                      ![id].waited = (pq.started # id)]
       IN /\ scheduled' = id
          /\ activeRequests' = pq.active
          /\ requestQueue' = pq.queue
          /\ requests' = Started(queued, pq.started)
          /\ startOrder' = IF pq.started = 0 THEN startOrder
                           ELSE Append(startOrder, pq.started)
    /\ UNCHANGED failures

ScheduleRequest ==
    /\ _scheduleRequest(NumRequests)
    /\ UNCHANGED notOracleVars

\* _makeRequest resolves (2xx): _makeRequestWithRetry returns the response and
\* .then(resolve) settles the caller's promise.
Resolves(r) ==
    /\ requests[r].phase = "inflight"
    /\ requests' = [requests EXCEPT ![r].phase = "resolved"]
    /\ UNCHANGED <<activeRequests, requestQueue, startOrder, scheduled, failures>>

AttemptSucceeds(r) ==
    /\ Resolves(r)
    /\ UNCHANGED notOracleVars

\* The catch block of _makeRequestWithRetry after a rejected attempt:
\* wait for the backoff, or throw, and then .catch(reject) settles the promise.
AfterFailureUnbounded(req, error) ==
    IF _isRetryableError(error)
    THEN [req EXCEPT !.phase = "backoff"]
    ELSE [req EXCEPT !.phase = "rejected", !.error = error]
AfterFailureNoRetry(req, error) ==
    [req EXCEPT !.phase = "rejected", !.error = error]
AfterFailure(req, error) ==
    IF _isRetryableError(error) /\ req.i < retries - 1
    THEN [req EXCEPT !.phase = "backoff"]
    ELSE [req EXCEPT !.phase = "rejected", !.error = error]

\* const backoffDelay = delay * Math.pow(2, i), in milliseconds.
backoffLinear(i) == delay * (i + 1)
backoffDelay(i) == delay * 2^i

\* _makeRequest rejects with `error`; `limit` bounds the failures of a run.
Rejects(r, error, limit) ==
    /\ requests[r].phase = "inflight"
    /\ failures < limit
    /\ failures' = failures + 1
    /\ requests' = [requests EXCEPT ![r] = AfterFailure(requests[r], error)]
    /\ UNCHANGED <<activeRequests, requestQueue, startOrder, scheduled>>

AttemptFails(r, error) ==
    /\ Rejects(r, error, MaxFailures)
    /\ UNCHANGED notOracleVars

\* The backoff timer fires: the for loop goes on with i + 1 and a new attempt.
TimerFires(r) ==
    /\ requests[r].phase = "backoff"
    /\ requests' = [requests EXCEPT ![r].phase = "inflight",
                                    ![r].i = requests[r].i + 1]
    /\ UNCHANGED <<activeRequests, requestQueue, startOrder, scheduled, failures>>

BackoffElapsed(r) ==
    /\ TimerFires(r)
    /\ UNCHANGED notOracleVars

\* The .finally callback: activeRequests--, then _processQueue.
FinallyKeepsSlot(r) ==
    /\ requests[r].phase \in {"resolved", "rejected"}
    /\ requests[r].slot
    /\ requests' = [requests EXCEPT ![r].slot = FALSE, ![r].i = 0,
                                    ![r].error = NoError]
    /\ UNCHANGED <<activeRequests, requestQueue, startOrder, scheduled,
                   failures>>
FinallyKeepsQueue(r) ==
    /\ requests[r].phase \in {"resolved", "rejected"}
    /\ requests[r].slot
    /\ activeRequests' = activeRequests - 1
    /\ requests' = [requests EXCEPT ![r].slot = FALSE, ![r].i = 0,
                                    ![r].error = NoError]
    /\ UNCHANGED <<requestQueue, startOrder, scheduled, failures>>
Finally(r) ==
    /\ requests[r].phase \in {"resolved", "rejected"}
    /\ requests[r].slot
    /\ LET pq == _processQueue(activeRequests - 1, requestQueue)
           freed == [requests EXCEPT ![r].slot = FALSE, ![r].i = 0,
                                     ![r].error = NoError]
       IN /\ activeRequests' = pq.active
          /\ requestQueue' = pq.queue
          /\ requests' = Started(freed, pq.started)
          /\ startOrder' = IF pq.started = 0 THEN startOrder
                           ELSE Append(startOrder, pq.started)
    /\ UNCHANGED <<scheduled, failures>>

Release(r) ==
    /\ Finally(r)
    /\ UNCHANGED notOracleVars

NextOracle ==
    \/ ScheduleRequest
    \/ \E r \in RequestIds : AttemptSucceeds(r)
    \/ \E r \in RequestIds : \E error \in AttemptErrors : AttemptFails(r, error)
    \/ \E r \in RequestIds : BackoffElapsed(r)
    \/ \E r \in RequestIds : Release(r)

(***************************************************************************)
(* call(): one call from _scheduleRequest to its return or throw, with the *)
(* attempts the server saw                                                 *)
(***************************************************************************)
\* The 2xx bodies an attempt can resolve with: a Messages response, or one
\* whose content array is empty.
Responses == {"message", "no-content"}

\* What call() does once the promise of _scheduleRequest is settled.  It
\* returns {body: response.content[0].text, usage}; reading content[0].text of
\* a body without content throws inside the try block, and the catch block
\* wraps whatever was thrown in a new Error.
TypeError == [status |-> 0, code |-> "", message |-> "TypeError"]
Success(response) == [status |-> 200, code |-> "", message |-> response]
Pending == [result |-> "pending", cause |-> NoError]
AfterResolve(response) ==
    IF response = "message"
    THEN [result |-> "returned", cause |-> NoError]
    ELSE [result |-> "threw", cause |-> TypeError]
AfterReject(error) == [result |-> "threw", cause |-> error]

\* activeRequests++ on behalf of the request _processQueue started (0: none).
HeldAfterStart(h, id) == IF id = 0 THEN h ELSE [h EXCEPT ![id] = @ + 1]

InitCalls ==
    /\ attemptLog = [r \in RequestIds |-> <<>>]
    /\ settlements = [r \in RequestIds |-> 0]
    /\ held = [r \in RequestIds |-> 0]
    /\ outcome = [r \in RequestIds |-> Pending]
    /\ timers = [r \in RequestIds |-> <<>>]

Call ==
    /\ _scheduleRequest(NumCalls)
    /\ held' = HeldAfterStart(held,
           _processQueue(activeRequests,
                         Append(requestQueue, scheduled + 1)).started)
    /\ UNCHANGED <<attemptLog, settlements, outcome, timers>>
    /\ UNCHANGED notClientVars

\* A 2xx attempt whose body parses.
CallAttemptResolves(r, response) ==
    /\ Resolves(r)
    /\ attemptLog' = [attemptLog EXCEPT ![r] = Append(@, Success(response))]
    /\ settlements' = [settlements EXCEPT ![r] = @ + 1]
    /\ outcome' = [outcome EXCEPT ![r] = AfterResolve(response)]
    /\ UNCHANGED <<held, timers>>
    /\ UNCHANGED notClientVars

CallAttemptRejects(r, error) ==
    /\ Rejects(r, error, MaxAttemptFailures)
    /\ attemptLog' = [attemptLog EXCEPT ![r] = Append(@, error)]
    /\ IF AfterFailure(requests[r], error).phase = "rejected"
       THEN /\ settlements' = [settlements EXCEPT ![r] = @ + 1]
            /\ outcome' = [outcome EXCEPT ![r] = AfterReject(error)]
            /\ UNCHANGED timers
       ELSE /\ timers' = [timers EXCEPT
                            ![r] = Append(@, backoffDelay(requests[r].i))]
            /\ UNCHANGED <<settlements, outcome>>
    /\ UNCHANGED held
    /\ UNCHANGED notClientVars

CallBackoffElapsed(r) ==
    /\ TimerFires(r)
    /\ UNCHANGED callVars
    /\ UNCHANGED notClientVars

CallFinally(r) ==
    /\ Finally(r)
    /\ held' = HeldAfterStart([held EXCEPT ![r] = @ - 1],
           _processQueue(activeRequests - 1, requestQueue).started)
    /\ UNCHANGED <<attemptLog, settlements, outcome, timers>>
    /\ UNCHANGED notClientVars

NextCall ==
    \/ Call
    \/ \E r \in RequestIds : \E response \in Responses :
         CallAttemptResolves(r, response)
    \/ \E r \in RequestIds : \E error \in AttemptErrors :
         CallAttemptRejects(r, error)
    \/ \E r \in RequestIds : CallBackoffElapsed(r)
    \/ \E r \in RequestIds : CallFinally(r)


(***************************************************************************)
(* Transactional outbox: the table, the publisher protocol, the lease      *)
(***************************************************************************)
QueueNames == {"file-analysis-queue", "directory-aggregation-queue"}
PublisherIds == 1..NumPublishers

Min(a, b) == IF a <= b THEN a ELSE b

\* How often row id `r` occurs in the log `log`.
Count(log, r) == Cardinality({k \in 1..Len(log) : log[k] = r})

\* The ids of a log that belong to queue q, in log order.
OfQueue(log, q) == SelectSeq(log, LAMBDA r : outbox[r].queue = q)

StrictlyIncreasing(seq) == \A k \in 1..(Len(seq) - 1) : seq[k] < seq[k + 1]

\* INSERT INTO outbox: AUTOINCREMENT id, status DEFAULT 'pending'.
NewRow(q) == [queue |-> q, status |-> "pending", pubAt |-> 0]

\* SELECT id FROM outbox WHERE status = 'pending' ORDER BY id LIMIT N
Ids(table) == [k \in 1..Len(table) |-> k]
Reverse(seq) == [k \in 1..Len(seq) |-> seq[Len(seq) + 1 - k]]
PendingRowsDesc(table, limit) ==
    LET pend == Reverse(SelectSeq(Ids(table), LAMBDA k : table[k].status = "pending"))
    IN SubSeq(pend, 1, Min(limit, Len(pend)))
PendingRows(table, limit) ==
    LET pend == SelectSeq(Ids(table), LAMBDA k : table[k].status = "pending")
    IN SubSeq(pend, 1, Min(limit, Len(pend)))

\* The row after the broker refused the enqueue: left pending for the next tick.
MarkedOnFailure(row, at) == [row EXCEPT !.status = "published", !.pubAt = at]
AfterBrokerFailure(row, at) == row

\* The row after the broker's ack: status = 'published', processed_at = now.
AfterBrokerAck(row, at) == [row EXCEPT !.status = "published", !.pubAt = at]

FreshPublisher == [pc |-> "none", batch |-> <<>>, tickLog |-> <<>>, leader |-> FALSE]

InitOutbox ==
    /\ outbox = <<>>
    /\ enqueued = <<>>
    /\ publishers = [p \in PublisherIds |-> FreshPublisher]
    /\ leaderLease = 0
    /\ crashes = 0
    /\ crashedAfterAck = {}

NumStarted == Cardinality({p \in PublisherIds : publishers[p].pc # "none"})

\* startPipeline: new TransactionalOutboxPublisher(...); outboxPublisher.start().
\* Every call constructs its own instance; nothing keeps or stops an earlier one.
StartPipeline ==
    /\ NumStarted < NumPublishers
    /\ publishers' = [publishers EXCEPT ![NumStarted + 1].pc = "idle"]
    /\ UNCHANGED <<outbox, enqueued, leaderLease, crashes, crashedAfterAck>>
    /\ UNCHANGED notOutboxVars

\* A worker's transaction inserts an outbox event for queue q.
InsertEvent(q) ==
    /\ Len(outbox) < MaxRows
    /\ outbox' = Append(outbox, NewRow(q))
    /\ UNCHANGED <<enqueued, publishers, leaderLease, crashes, crashedAfterAck>>
    /\ UNCHANGED notOutboxVars

\* SET outbox-publisher-leader <p> NX PX ttl
AcquireLease(p) ==
    /\ publishers[p].pc = "idle"
    /\ ~publishers[p].leader
    /\ leaderLease = 0
    /\ leaderLease' = p
    /\ publishers' = [publishers EXCEPT ![p].leader = TRUE]
    /\ UNCHANGED <<outbox, enqueued, crashes, crashedAfterAck>>
    /\ UNCHANGED notOutboxVars

\* The heartbeat: renew the TTL while the key is still p's, step down otherwise.
Heartbeat(p) ==
    /\ publishers[p].pc # "none"
    /\ publishers[p].leader
    /\ leaderLease # p
    /\ publishers' = [publishers EXCEPT ![p].leader = FALSE]
    /\ UNCHANGED <<outbox, enqueued, leaderLease, crashes, crashedAfterAck>>
    /\ UNCHANGED notOutboxVars

\* The TTL runs out before the holder renewed it.
LeaseExpires ==
    /\ leaderLease # 0
    /\ leaderLease' = 0
    /\ UNCHANGED <<outbox, enqueued, publishers, crashes, crashedAfterAck>>
    /\ UNCHANGED notOutboxVars

\* A tick of the leader: poll the pending rows.
Poll(p) ==
    /\ publishers[p].pc = "idle"
    /\ publishers[p].leader
    /\ LET rows == PendingRows(outbox, PollLimit)
       IN /\ rows # <<>>
          /\ publishers' = [publishers EXCEPT ![p].pc = "batch", ![p].batch = rows,
                                              ![p].tickLog = <<>>]
    /\ UNCHANGED <<outbox, enqueued, leaderLease, crashes, crashedAfterAck>>
    /\ UNCHANGED notOutboxVars

\* The publisher after it is done with the head of its batch.
NextRow(pub) ==
    [pub EXCEPT !.batch = Tail(pub.batch),
                !.pc = IF Len(pub.batch) = 1 THEN "idle" ELSE "batch"]

\* enqueue(queue, payload) is acknowledged by the broker.
EnqueueAcked(p) ==
    /\ publishers[p].pc = "batch"
    /\ Len(enqueued) < MaxEnqueues
    /\ LET r == Head(publishers[p].batch)
       IN /\ enqueued' = Append(enqueued, r)
          /\ publishers' = [publishers EXCEPT ![p].pc = "acked",
                               ![p].tickLog = Append(publishers[p].tickLog, r)]
    /\ UNCHANGED <<outbox, leaderLease, crashes, crashedAfterAck>>
    /\ UNCHANGED notOutboxVars

\* enqueue fails at the broker: the row stays as it is, the tick goes on.
EnqueueFails(p) ==
    /\ publishers[p].pc = "batch"
    /\ LET r == Head(publishers[p].batch)
       IN outbox' = [outbox EXCEPT ![r] = AfterBrokerFailure(outbox[r], Len(enqueued))]
    /\ publishers' = [publishers EXCEPT ![p] = NextRow(publishers[p])]
    /\ UNCHANGED <<enqueued, leaderLease, crashes, crashedAfterAck>>
    /\ UNCHANGED notOutboxVars

\* On the ack: UPDATE outbox SET status = 'published' WHERE id = r.
MarkPublished(p) ==
    /\ publishers[p].pc = "acked"
    /\ LET r == Head(publishers[p].batch)
       IN outbox' = [outbox EXCEPT ![r] = AfterBrokerAck(outbox[r], Len(enqueued))]
    /\ publishers' = [publishers EXCEPT ![p] = NextRow(publishers[p])]
    /\ UNCHANGED <<enqueued, leaderLease, crashes, crashedAfterAck>>
    /\ UNCHANGED notOutboxVars

\* The publisher is killed and restarted: what it held in memory is gone, the
\* table, the broker's queues and the lease key stay.
CrashRestart(p) ==
    /\ publishers[p].pc # "none"
    /\ crashes < MaxCrashes
    /\ crashes' = crashes + 1
    /\ crashedAfterAck' =
         IF publishers[p].pc = "acked"
         THEN crashedAfterAck \cup {Head(publishers[p].batch)}
         ELSE crashedAfterAck
    /\ publishers' = [publishers EXCEPT ![p] = [FreshPublisher EXCEPT !.pc = "idle"]]
    /\ UNCHANGED <<outbox, enqueued, leaderLease>>
    /\ UNCHANGED notOutboxVars

\* The steps of the publishers other than their construction and their crashes.
PublisherSteps ==
    \/ \E q \in QueueNames : InsertEvent(q)
    \/ \E p \in PublisherIds : AcquireLease(p)
    \/ LeaseExpires
    \/ \E p \in PublisherIds : Poll(p)
    \/ \E p \in PublisherIds : EnqueueAcked(p)
    \/ \E p \in PublisherIds : EnqueueFails(p)
    \/ \E p \in PublisherIds : MarkPublished(p)

\* One startPipeline call: a single publisher, which may crash and restart.
StartFirstPipeline ==
    /\ NumStarted = 0
    /\ StartPipeline

NextOutbox ==
    \/ StartFirstPipeline
    \/ PublisherSteps
    \/ \E p \in PublisherIds : Heartbeat(p)
    \/ \E p \in PublisherIds : CrashRestart(p)

\* Any number of startPipeline calls, each publisher following the lease.
NextLeader ==
    \/ StartPipeline
    \/ PublisherSteps
    \/ \E p \in PublisherIds : Heartbeat(p)


(***************************************************************************)
(* File discovery: the lease, its ownership script, check-on-write         *)
(***************************************************************************)
WorkerIds == 1..NumWorkers

\* The owner token of worker w (unique per worker).
Token(w) == w

\* The atomic script: compare the stored owner token with the caller's and
\* only then PEXPIRE.  TRUE: the caller is the owner and the lease is renewed.
KeyExists(stored, token) == stored # 0
OwnershipScript(stored, token) == stored = token

\* The first batch of the sweep that no File rows exist for yet (0: none left).
NextBatch(log) ==
    LET left == {b \in 1..NumBatches : \A k \in 1..Len(log) : log[k].batch # b}
    IN IF left = {} THEN 0 ELSE CHOOSE b \in left : \A c \in left : b <= c

InitLease ==
    /\ discoveryLease = 0
    /\ workers = [w \in WorkerIds |-> [pc |-> "idle", batch |-> 0, sawOwner |-> 0]]
    /\ emitted = <<>>

\* SET discovery-lock:{targetDir} <token> NX EX ttl
AcquireDiscoveryLease(w) ==
    /\ workers[w].pc = "idle"
    /\ discoveryLease = 0
    /\ discoveryLease' = Token(w)
    /\ workers' = [workers EXCEPT ![w].pc = "holding"]
    /\ UNCHANGED emitted
    /\ UNCHANGED notLeaseVars

\* The TTL runs out: the holder was paused, or its heartbeat came too late.
DiscoveryLeaseExpires ==
    /\ discoveryLease # 0
    /\ discoveryLease' = 0
    /\ UNCHANGED <<workers, emitted>>
    /\ UNCHANGED notLeaseVars

\* The worker after the script answered `owner` to its check-on-write for `b`.
AfterCheckUnverified(worker, owner, stored, b) ==
    [worker EXCEPT !.pc = "checked", !.batch = b, !.sawOwner = stored]
AfterCheck(worker, owner, stored, b) ==
    IF owner
    THEN [worker EXCEPT !.pc = "checked", !.batch = b, !.sawOwner = stored]
    ELSE [worker EXCEPT !.pc = "aborted"]

\* Check-on-write before enqueuing the next batch: the same atomic script.
CheckOnWrite(w) ==
    /\ workers[w].pc = "holding"
    /\ NextBatch(emitted) # 0
    /\ workers' = [workers EXCEPT ![w] =
                     AfterCheck(workers[w], OwnershipScript(discoveryLease, Token(w)),
                                discoveryLease, NextBatch(emitted))]
    /\ UNCHANGED <<discoveryLease, emitted>>
    /\ UNCHANGED notLeaseVars

\* The heartbeat task finds the lease lost: the worker is told to shut down.
HeartbeatFails(w) ==
    /\ workers[w].pc \in {"holding", "checked"}
    /\ ~OwnershipScript(discoveryLease, Token(w))
    /\ workers' = [workers EXCEPT ![w].pc = "aborted"]
    /\ UNCHANGED <<discoveryLease, emitted>>
    /\ UNCHANGED notLeaseVars

\* The batch is written and enqueued; `owner` records what the lease key held
\* at that moment.
EnqueueBatch(w) ==
    /\ workers[w].pc = "checked"
    /\ emitted' = Append(emitted, [worker |-> w, batch |-> workers[w].batch,
                                   owner |-> discoveryLease])
    /\ workers' = [workers EXCEPT ![w].pc = "holding", ![w].batch = 0,
                                  ![w].sawOwner = 0]
    /\ UNCHANGED discoveryLease
    /\ UNCHANGED notLeaseVars

\* The sweep is complete: the worker releases the lease if it still owns it.
FinishSweep(w) ==
    /\ workers[w].pc = "holding"
    /\ NextBatch(emitted) = 0
    /\ workers' = [workers EXCEPT ![w].pc = "done"]
    /\ discoveryLease' = IF OwnershipScript(discoveryLease, Token(w))
                         THEN 0 ELSE discoveryLease
    /\ UNCHANGED emitted
    /\ UNCHANGED notLeaseVars

NextLease ==
    \/ \E w \in WorkerIds : AcquireDiscoveryLease(w)
    \/ DiscoveryLeaseExpires
    \/ \E w \in WorkerIds : CheckOnWrite(w)
    \/ \E w \in WorkerIds : HeartbeatFails(w)
    \/ \E w \in WorkerIds : EnqueueBatch(w)
    \/ \E w \in WorkerIds : FinishSweep(w)

(***************************************************************************)
(* Phase B: packing files into batches                                     *)
(***************************************************************************)
RECURSIVE Sum(_, _)
\* The tokens of the files with the 0-based indices of `idx`.
Sum(sizes, idx) ==
    IF idx = <<>> THEN 0 ELSE sizes[Head(idx) + 1] + Sum(sizes, Tail(idx))

\* "adding the next file would exceed" the token limit or the file count.
ExceedsTokensOnly(sizes, open, t, limitTokens, limitFiles) ==
    Sum(sizes, open) + t > limitTokens
ExceedsLoosely(sizes, open, t, limitTokens, limitFiles) ==
    \/ Sum(sizes, open) + t > limitTokens + 1
    \/ Len(open) + 1 > limitFiles
Exceeds(sizes, open, t, limitTokens, limitFiles) ==
    \/ Sum(sizes, open) + t > limitTokens
    \/ Len(open) + 1 > limitFiles

RECURSIVE Flatten(_)
Flatten(bs) == IF bs = <<>> THEN <<>> ELSE Head(bs) \o Flatten(Tail(bs))

InitBatch ==
    /\ maxBatchTokens \in 1..MaxLimit
    /\ maxBatchFiles \in 1..MaxFilesPerBatch
    /\ files \in UNION {[1..n -> 0..(MaxLimit + 1)] : n \in 0..MaxFileCount}
    /\ pos = 0
    /\ current = <<>>
    /\ batches = <<>>
    /\ walkerDone = FALSE

\* The next file is consumed: the open batch is emitted first when adding the
\* file would exceed a limit, and the file opens or joins a batch.
ConsumeFile ==
    /\ ~walkerDone
    /\ pos < Len(files)
    /\ LET emit == /\ current # <<>>
                   /\ Exceeds(files, current, files[pos + 1],
                              maxBatchTokens, maxBatchFiles)
       IN /\ batches' = IF emit THEN Append(batches, current) ELSE batches
          /\ current' = IF emit THEN <<pos>> ELSE Append(current, pos)
    /\ pos' = pos + 1
    /\ UNCHANGED <<files, maxBatchTokens, maxBatchFiles, walkerDone>>
    /\ UNCHANGED notBatchVars

\* Walker completion: the final partial batch is emitted.
CompleteWalk ==
    /\ ~walkerDone
    /\ pos = Len(files)
    /\ batches' = IF current # <<>> THEN Append(batches, current) ELSE batches
    /\ current' = <<>>
    /\ walkerDone' = TRUE
    /\ UNCHANGED <<files, maxBatchTokens, maxBatchFiles, pos>>
    /\ UNCHANGED notBatchVars

NextBatchPacking ==
    \/ ConsumeFile
    \/ CompleteWalk

\* The packer's inputs of the specifications that are not about packing.
IdleBatch ==
    /\ maxBatchTokens = 1
    /\ maxBatchFiles = 1
    /\ files = <<>>
    /\ pos = 0
    /\ current = <<>>
    /\ batches = <<>>
    /\ walkerDone = FALSE

(***************************************************************************)
(* Reconciliation: evidence rows, the confidence combiner, the upsert      *)
(***************************************************************************)
PoiIds == {"a", "b"}
RelationshipTypes == {"calls", "references"}
RelKeys == {[from |-> "a", to |-> "b", type |-> t] : t \in RelationshipTypes}
Sources == {"deterministic", "intra_file", "intra_directory", "global"}

\* Confidences and weights are counted in tenths.
Scale == 10
Confidences == {6, 9, Scale}
Weight(s) ==
    CASE s = "deterministic" -> 10
      [] s = "intra_file" -> 7
      [] s = "intra_directory" -> 5
      [] s = "global" -> 4

\* One factor (1 - w * c) is counted in 1/Full, the product of the four
\* factors and the combined confidence C in 1/One.
Full == Scale * Scale
One == Full * Full * Full * Full

EvidenceRow(key, s, c) == [key |-> key, source |-> s, confidence |-> c]
AllRows == {EvidenceRow(key, s, c) : key \in RelKeys, s \in Sources,
                                      c \in Confidences}
AnyKey(table, key) == table
RowsOf(table, key) == {row \in table : row.key = key}
SourcesOf(rows) == {row.source : row \in rows}

\* c_s: the max confidence from source s (0 when the source is silent).
LeastOf(rows, s) ==
    LET cs == {row.confidence : row \in {x \in rows : x.source = s}}
    IN IF cs = {} THEN 0 ELSE CHOOSE c \in cs : \A d \in cs : c <= d
BestOf(rows, s) ==
    LET cs == {row.confidence : row \in {x \in rows : x.source = s}}
    IN IF cs = {} THEN 0 ELSE CHOOSE c \in cs : \A d \in cs : c >= d

Factor(rows, s) == Full - Weight(s) * BestOf(rows, s)

\* C = 1 - PRODUCT_s (1 - w_s * c_s), in 1/One.
Combine(rows) ==
    One - Factor(rows, "deterministic") * Factor(rows, "intra_file")
            * Factor(rows, "intra_directory") * Factor(rows, "global")

\* The acceptance rule; the threshold 0.85 is counted in hundredths.
Threshold == 85
Accepts(rows) ==
    \/ Cardinality(SourcesOf(rows)) >= 2
    \/ "deterministic" \in SourcesOf(rows)
    \/ Combine(rows) >= Threshold * (One \div Full)

\* The upsert with its tie-break on a key already present.
NoRow == -1
Overwrite(old, c) == c
Upsert(old, c) == IF old >= c THEN old ELSE c

InitStore ==
    /\ pois = {}
    /\ evidence = {}
    /\ reconEvents = {}
    /\ processed = {}
    /\ reprocessed = {}
    /\ relationships = [key \in RelKeys |-> NoRow]
    /\ graphOutbox = {}

\* The store once the files holding a and b have been analysed.
InitAnalysed ==
    /\ pois = PoiIds
    /\ evidence = {}
    /\ reconEvents = {}
    /\ processed = {}
    /\ reprocessed = {}
    /\ relationships = [key \in RelKeys |-> NoRow]
    /\ graphOutbox = {}

\* A worker inserts one observation (append-only).
InsertEvidence(key, s, c) ==
    /\ Cardinality(evidence) < MaxEvidence
    /\ EvidenceRow(key, s, c) \notin evidence
    /\ evidence' = evidence \cup {EvidenceRow(key, s, c)}
    /\ UNCHANGED <<pois, reconEvents, processed, reprocessed, relationships,
                   graphOutbox>>
    /\ UNCHANGED notReconVars

\* The validation worker: both endpoints exist, the rows of the key are
\* forwarded, grouped, to the reconciliation queue.
Forward(key) ==
    /\ Cardinality(reconEvents) < MaxReconEvents
    /\ RowsOf(evidence, key) # {}
    /\ key.from \in pois /\ key.to \in pois
    /\ [key |-> key, rows |-> RowsOf(evidence, key)] \notin reconEvents
    /\ reconEvents' =
         reconEvents \cup {[key |-> key, rows |-> RowsOf(evidence, key)]}
    /\ UNCHANGED <<pois, evidence, processed, reprocessed, relationships,
                   graphOutbox>>
    /\ UNCHANGED notReconVars

\* The reconciliation worker handles event e (a delivery or a redelivery).
Reconcile(e) ==
    /\ e \in reconEvents
    /\ e \notin reprocessed
    /\ processed' = processed \cup {e}
    /\ reprocessed' = IF e \in processed THEN reprocessed \cup {e}
                      ELSE reprocessed
    /\ IF Accepts(e.rows)
       THEN /\ relationships' =
                 [relationships EXCEPT ![e.key] = Upsert(@, Combine(e.rows))]
            /\ graphOutbox' = graphOutbox \cup {e.key}
       ELSE UNCHANGED <<relationships, graphOutbox>>
    /\ UNCHANGED <<pois, evidence, reconEvents>>
    /\ UNCHANGED notReconVars

NextRecon ==
    \/ \E key \in RelKeys : \E s \in Sources : \E c \in Confidences :
         InsertEvidence(key, s, c)
    \/ \E key \in RelKeys : Forward(key)
    \/ \E e \in reconEvents : Reconcile(e)

(***************************************************************************)
(* Pipeline runs: startPipelineAsync, startPipeline, clearAllDatabases     *)
(***************************************************************************)
Paths == {"a.js"}
PoisOf(path) == PoiIds
Directories == {"src"}
Stores == {"sqlite", "redis", "neo4j"}

NoFile == [status |-> "none", run |-> 0]
Rank(status) ==
    CASE status = "none" -> 0
      [] status = "discovered" -> 1
      [] status = "analyzing" -> 2
      [] status = "analyzed" -> 3
      [] status = "failed" -> 3

\* INSERT INTO files: file_path is UNIQUE, a second row for a path is refused.
ReplaceFile(row, new) == new
InsertFile(row, new) == IF row.status = "none" THEN new ELSE row

\* A worker stage advances File.status along the ordering.
SetStatus(row, status) == [row EXCEPT !.status = status]
Advance(row, status) ==
    IF Rank(row.status) < Rank(status) THEN [row EXCEPT !.status = status]
    ELSE row

\* The DELETE statements of clearAllDatabases, in order.
DeleteOrderShort ==
    <<"relationships", "relationship_evidence", "pois", "files">>
DeleteOrder ==
    <<"relationships", "relationship_evidence", "pois", "files",
      "directory_summaries", "outbox">>
FlushPc == Len(DeleteOrder) + 1
GraphPc == Len(DeleteOrder) + 2
ReturnedPc == Len(DeleteOrder) + 3

\* The object testConnections returns, and the test startPipelineAsync makes of
\* it; a key the object does not have reads as undefined.
ConnectionResults == [{"sqlite", "anthropic", "neo4j", "redis"} -> BOOLEAN]
Connected(c, k) == k \in DOMAIN c /\ c[k]
RequiredOk(c) ==
    ~(~Connected(c, "sqlite") \/ ~Connected(c, "deepseek")
        \/ ~Connected(c, "neo4j"))

InitPipeline ==
    /\ fileRows = [path \in Paths |-> NoFile]
    /\ dirSummaries = {}
    /\ graph = {}
    /\ clearPc = 0
    /\ run = [id |-> 0, entry |-> "none", phase |-> "none", cleared |-> {},
              scout |-> FALSE]

NoRunActive == run.phase \in {"none", "stopped", "failed"}
WorkersRunning == run.entry = "factory" /\ run.phase = "working"

\* pipelineApi.startPipelineAsync up to its first await, in clearAllDatabases.
StartPipelineAsync ==
    /\ NoRunActive
    /\ run.id < MaxRuns
    /\ run' = [id |-> run.id + 1, entry |-> "api", phase |-> "clearing",
               cleared |-> {}, scout |-> FALSE]
    /\ clearPc' = 1
    /\ UNCHANGED <<fileRows, dirSummaries, graph>>
    /\ UNCHANGED <<pois, evidence, reconEvents, relationships, graphOutbox,
                   outbox>>
    /\ UNCHANGED notStoreVars

\* db.exec('DELETE FROM <table>') for the table the statement names.
ClearDelete ==
    /\ clearPc \in 1..Len(DeleteOrder)
    /\ LET table == DeleteOrder[clearPc] IN
       /\ relationships' = IF table = "relationships"
                           THEN [key \in RelKeys |-> NoRow] ELSE relationships
       /\ evidence' = IF table = "relationship_evidence" THEN {} ELSE evidence
       /\ pois' = IF table = "pois" THEN {} ELSE pois
       /\ fileRows' = IF table = "files" THEN [path \in Paths |-> NoFile]
                      ELSE fileRows
       /\ dirSummaries' = IF table = "directory_summaries" THEN {}
                          ELSE dirSummaries
       /\ outbox' = IF table = "outbox" THEN <<>> ELSE outbox
       /\ graphOutbox' = IF table = "outbox" THEN {} ELSE graphOutbox
    /\ run' = IF clearPc = Len(DeleteOrder)
              THEN [run EXCEPT !.cleared = @ \cup {"sqlite"}] ELSE run
    /\ clearPc' = clearPc + 1
    /\ UNCHANGED <<graph, reconEvents>>
    /\ UNCHANGED notStoreVars

\* await this.cacheClient.flushdb(): the broker's queues live in the cache.
ClearFlush ==
    /\ clearPc = FlushPc
    /\ reconEvents' = {}
    /\ run' = [run EXCEPT !.cleared = @ \cup {"redis"}]
    /\ clearPc' = clearPc + 1
    /\ UNCHANGED <<fileRows, dirSummaries, graph>>
    /\ UNCHANGED <<pois, evidence, relationships, graphOutbox, outbox>>
    /\ UNCHANGED notStoreVars

\* await session.run('MATCH (n) DETACH DELETE n'), then clearAllDatabases
\* returns to startPipelineAsync.
ClearGraph ==
    /\ clearPc = GraphPc
    /\ graph' = {}
    /\ run' = [run EXCEPT !.cleared = @ \cup {"neo4j"}]
    /\ clearPc' = ReturnedPc
    /\ UNCHANGED <<fileRows, dirSummaries>>
    /\ UNCHANGED <<pois, evidence, reconEvents, relationships, graphOutbox,
                   outbox>>
    /\ UNCHANGED notStoreVars

\* initialize(), a db.exec, flushdb or session.run throws: clearAllDatabases
\* rejects and the catch block of startPipelineAsync marks the run failed.
ClearThrows ==
    /\ clearPc \in 1..GraphPc
    /\ clearPc' = 0
    /\ run' = [run EXCEPT !.phase = "failed"]
    /\ UNCHANGED <<fileRows, dirSummaries, graph>>
    /\ UNCHANGED <<pois, evidence, reconEvents, relationships, graphOutbox,
                   outbox>>
    /\ UNCHANGED notStoreVars

\* Phase 2 of startPipelineAsync: testConnections and the test of its result.
TestConnections ==
    /\ clearPc = ReturnedPc
    /\ \E c \in ConnectionResults :
         run' = [run EXCEPT !.phase = IF RequiredOk(c) THEN "entity_scout"
                                      ELSE "failed"]
    /\ clearPc' = 0
    /\ UNCHANGED <<fileRows, dirSummaries, graph>>
    /\ UNCHANGED <<pois, evidence, reconEvents, relationships, graphOutbox,
                   outbox>>
    /\ UNCHANGED notStoreVars

\* ProductionAgentFactory.startPipeline: initialize, createAgents,
\* createWorkers, then entityScout.run(); a throw on the way fails the run.
StartPipelineRun ==
    /\ NoRunActive
    /\ run.id < MaxRuns
    /\ \E ok \in BOOLEAN :
         run' = [id |-> run.id + 1, entry |-> "factory",
                 phase |-> IF ok THEN "working" ELSE "failed",
                 cleared |-> {}, scout |-> ok]
    /\ UNCHANGED <<fileRows, dirSummaries, graph, clearPc>>
    /\ UNCHANGED <<pois, evidence, reconEvents, relationships, graphOutbox,
                   outbox>>
    /\ UNCHANGED notStoreVars

\* stopPipeline: the workers are closed.
StopPipelineRun ==
    /\ WorkersRunning
    /\ run' = [run EXCEPT !.phase = "stopped"]
    /\ UNCHANGED <<fileRows, dirSummaries, graph, clearPc>>
    /\ UNCHANGED <<pois, evidence, reconEvents, relationships, graphOutbox,
                   outbox>>
    /\ UNCHANGED notStoreVars

\* Discovery creates the File row of a path (status defaults to 'discovered').
Discover(path) ==
    /\ WorkersRunning
    /\ fileRows' = [fileRows EXCEPT ![path] =
                      InsertFile(@, [status |-> "discovered", run |-> run.id])]
    /\ UNCHANGED <<dirSummaries, graph, clearPc, run>>
    /\ UNCHANGED <<pois, evidence, reconEvents, relationships, graphOutbox,
                   outbox>>
    /\ UNCHANGED notStoreVars

\* Phase B writes the batch: File rows 'analyzing', one outbox event.
Batch(path) ==
    /\ WorkersRunning
    /\ fileRows[path].status # "none"
    /\ Len(outbox) < MaxRows
    /\ fileRows' = [fileRows EXCEPT ![path] = Advance(@, "analyzing")]
    /\ outbox' = Append(outbox, NewRow("file-analysis-queue"))
    /\ UNCHANGED <<dirSummaries, graph, clearPc, run>>
    /\ UNCHANGED <<pois, evidence, reconEvents, relationships, graphOutbox>>
    /\ UNCHANGED notStoreVars

\* File analysis worker, deterministic pre-pass of a delivered job.
PrePass(path) ==
    /\ WorkersRunning
    /\ Rank(fileRows[path].status) >= Rank("analyzing")
    /\ evidence' = evidence \cup {EvidenceRow(
                      [from |-> "a", to |-> "b", type |-> "calls"],
                      "deterministic", Scale)}
    /\ UNCHANGED <<fileRows, dirSummaries, graph, clearPc, run>>
    /\ UNCHANGED <<pois, reconEvents, relationships, graphOutbox, outbox>>
    /\ UNCHANGED notStoreVars

\* File analysis worker, output transaction of a delivered job (a first
\* delivery or a redelivery): POIs, intra_file evidence with the oracle's
\* confidence c, File.status, one outbox event.
AnalyzeFile(path, c) ==
    /\ WorkersRunning
    /\ Rank(fileRows[path].status) >= Rank("analyzing")
    /\ Len(outbox) < MaxRows
    /\ pois' = pois \cup PoisOf(path)
    /\ evidence' = evidence \cup {EvidenceRow(
                      [from |-> "a", to |-> "b", type |-> "calls"],
                      "intra_file", c)}
    /\ fileRows' = [fileRows EXCEPT ![path] = Advance(@, "analyzed")]
    /\ outbox' = Append(outbox, NewRow("directory-aggregation-queue"))
    /\ UNCHANGED <<dirSummaries, graph, clearPc, run>>
    /\ UNCHANGED <<reconEvents, relationships, graphOutbox>>
    /\ UNCHANGED notStoreVars

\* File analysis worker: the job has failed its last retry.
FailFile(path) ==
    /\ WorkersRunning
    /\ Rank(fileRows[path].status) >= Rank("analyzing")
    /\ fileRows' = [fileRows EXCEPT ![path] = Advance(@, "failed")]
    /\ UNCHANGED <<dirSummaries, graph, clearPc, run>>
    /\ UNCHANGED <<pois, evidence, reconEvents, relationships, graphOutbox,
                   outbox>>
    /\ UNCHANGED notStoreVars

\* Directory aggregation writes the summary of a directory.
AggregateDirectory(d) ==
    /\ WorkersRunning
    /\ pois # {}
    /\ dirSummaries' = dirSummaries \cup {d}
    /\ UNCHANGED <<fileRows, graph, clearPc, run>>
    /\ UNCHANGED <<pois, evidence, reconEvents, relationships, graphOutbox,
                   outbox>>
    /\ UNCHANGED notStoreVars

\* The validation and reconciliation workers of the running pipeline.
Validation(key) == WorkersRunning /\ Forward(key)
Reconciliation(e) == WorkersRunning /\ Reconcile(e)

\* Graph builder: MERGE the endpoints of the accepted relationships.
BuildGraph ==
    /\ WorkersRunning
    /\ \E key \in RelKeys : relationships[key] # NoRow
    /\ graph' = graph \cup UNION {{key.from, key.to} :
                   key \in {k \in RelKeys : relationships[k] # NoRow}}
    /\ UNCHANGED <<fileRows, dirSummaries, clearPc, run>>
    /\ UNCHANGED <<pois, evidence, reconEvents, relationships, graphOutbox,
                   outbox>>
    /\ UNCHANGED notStoreVars

NextPipeline ==
    \/ StartPipelineAsync
    \/ ClearDelete
    \/ ClearFlush
    \/ ClearGraph
    \/ ClearThrows
    \/ TestConnections
    \/ StartPipelineRun
    \/ StopPipelineRun
    \/ \E path \in Paths : Discover(path)
    \/ \E path \in Paths : Batch(path)
    \/ \E path \in Paths : PrePass(path)
    \/ \E path \in Paths : AnalyzeFile(path, 9)
    \/ \E path \in Paths : FailFile(path)
    \/ \E d \in Directories : AggregateDirectory(d)
    \/ \E key \in RelKeys : Validation(key)
    \/ \E e \in reconEvents : Reconciliation(e)
    \/ BuildGraph

(***************************************************************************)
(* config.js: reading the environment, the required settings, production   *)
(***************************************************************************)
\* A value of process.env: unset (undefined), or a string.
Unset == [set |-> FALSE, text |-> ""]
Str(s) == [set |-> TRUE, text |-> s]
\* JavaScript truthiness of such a value, and `value || fallback`.
Truthy(v) == v.set /\ v.text # ""
Or(v, fallback) == IF Truthy(v) THEN v ELSE fallback

\* The text of a numeric setting is a sequence of characters.
Chars(t) == [set |-> TRUE, chars |-> t]
Digit ==
    [c \in {"0", "1", "2", "3", "4", "5", "6", "7", "8", "9"} |->
       CASE c = "0" -> 0 [] c = "1" -> 1 [] c = "2" -> 2 [] c = "3" -> 3
         [] c = "4" -> 4 [] c = "5" -> 5 [] c = "6" -> 6 [] c = "7" -> 7
         [] c = "8" -> 8 [] c = "9" -> 9]
\* String(value): an unset variable reads as undefined.
StringOf(v) ==
    IF v.set THEN v.chars ELSE <<"u", "n", "d", "e", "f", "i", "n", "e", "d">>

RECURSIVE TrimStart(_)
TrimStart(t) ==
    IF t # <<>> /\ Head(t) = " " THEN TrimStart(Tail(t)) ELSE t

\* The longest prefix of digits of t, read in base 10: <<value, digits read>>.
RECURSIVE ReadDigits(_, _, _)
ReadDigits(t, value, n) ==
    IF t # <<>> /\ Head(t) \in DOMAIN Digit
    THEN ReadDigits(Tail(t), 10 * value + Digit[Head(t)], n + 1)
    ELSE <<value, n>>

\* parseInt(text, 10): leading white space and one sign are skipped, digits
\* are read up to the first other character; NaN when there is no digit.
NaN == [nan |-> TRUE, value |-> 0]
parseInt(t) ==
    LET body == TrimStart(t)
        signed == body # <<>> /\ Head(body) \in {"-", "+"}
        digits == ReadDigits(IF signed THEN Tail(body) ELSE body, 0, 0)
    IN IF digits[2] = 0 THEN NaN
       ELSE [nan |-> FALSE,
             value |-> IF signed /\ Head(body) = "-" THEN 0 - digits[1]
                       ELSE digits[1]]
\* `number || fallback`: NaN and 0 are falsy.
OrFallback(n, fallback) == IF n.nan \/ n.value = 0 THEN fallback ELSE n.value

TextSettings ==
    {"ANTHROPIC_API_KEY", "SQLITE_DB_PATH", "NEO4J_URI", "NEO4J_USER",
     "NEO4J_PASSWORD", "NEO4J_DATABASE", "REDIS_URL", "REDIS_PASSWORD"}
NumberSettings == {"INGESTOR_BATCH_SIZE", "INGESTOR_INTERVAL_MS"}
Settings == TextSettings \cup NumberSettings
EnvNames == Settings \cup {"NODE_ENV"}

\* The values the model gives each variable of the environment.
EnvChoices(name) ==
    CASE name = "ANTHROPIC_API_KEY" -> {Unset, Str(""), Str("sk-key")}
      [] name = "NEO4J_PASSWORD" ->
           {Unset, Str(""), Str("password"), Str("s3cret")}
      [] name = "REDIS_PASSWORD" -> {Unset, Str(""), Str("r3dis")}
      [] name = "NODE_ENV" -> {Unset, Str("production"), Str("development")}
      [] name = "NEO4J_DATABASE" -> {Unset}
      [] name = "INGESTOR_BATCH_SIZE" ->
           {Unset, Chars(<<>>), Chars(<<"a", "b", "c">>), Chars(<<"0">>),
            Chars(<<"-", "5">>), Chars(<<"1", "2">>),
            Chars(<<"1", "2", "a">>), Chars(<<" ", "7">>)}
      [] name = "INGESTOR_INTERVAL_MS" ->
           {Unset, Chars(<<"0">>), Chars(<<"-", "1">>),
            Chars(<<"5", "0", "0">>)}
      [] OTHER -> {Unset, Str("")}
Environments ==
    [ANTHROPIC_API_KEY : EnvChoices("ANTHROPIC_API_KEY"),
     SQLITE_DB_PATH : EnvChoices("SQLITE_DB_PATH"),
     NEO4J_URI : EnvChoices("NEO4J_URI"),
     NEO4J_USER : EnvChoices("NEO4J_USER"),
     NEO4J_PASSWORD : EnvChoices("NEO4J_PASSWORD"),
     NEO4J_DATABASE : EnvChoices("NEO4J_DATABASE"),
     REDIS_URL : EnvChoices("REDIS_URL"),
     REDIS_PASSWORD : EnvChoices("REDIS_PASSWORD"),
     INGESTOR_BATCH_SIZE : EnvChoices("INGESTOR_BATCH_SIZE"),
     INGESTOR_INTERVAL_MS : EnvChoices("INGESTOR_INTERVAL_MS"),
     NODE_ENV : EnvChoices("NODE_ENV")]

\* The object literal `config` (the queue names play no part in the checks).
DefaultText(name) ==
    CASE name = "SQLITE_DB_PATH" -> Str("./db.sqlite")
      [] name = "NEO4J_URI" -> Str("bolt://localhost:7687")
      [] name = "NEO4J_USER" -> Str("neo4j")
      [] name = "NEO4J_PASSWORD" -> Str("password")
      [] name = "NEO4J_DATABASE" -> Str("neo4j")
      [] name = "REDIS_URL" -> Str("redis://localhost:6379")
      [] OTHER -> Unset
DefaultNumber(name) ==
    IF name = "INGESTOR_BATCH_SIZE" THEN 100 ELSE 10000
BuildConfig(e) ==
    [name \in Settings |->
       IF name \in NumberSettings
       THEN OrFallback(parseInt(StringOf(e[name])), DefaultNumber(name))
       ELSE IF name = "ANTHROPIC_API_KEY" THEN e[name]
       ELSE Or(e[name], DefaultText(name))]

IsProduction(e) == e["NODE_ENV"] = Str("production")

\* required_configs, and missing_configs = required_configs.filter(...).
BaseRequired ==
    {"SQLITE_DB_PATH", "NEO4J_URI", "NEO4J_USER", "NEO4J_PASSWORD",
     "ANTHROPIC_API_KEY", "REDIS_URL"}
RequiredAlways(e) == BaseRequired
RequiredConfigs(e) ==
    BaseRequired \cup (IF IsProduction(e) THEN {"REDIS_PASSWORD"} ELSE {})
NoneMissing(cfg, e) == {}
MissingConfigs(cfg, e) == {key \in RequiredConfigs(e) : ~Truthy(cfg[key])}

NoExit == -1
NotLoaded == [name \in Settings |-> IF name \in NumberSettings THEN 0 ELSE Unset]

InitConfig ==
    /\ env \in Environments
    /\ config = NotLoaded
    /\ loadPc = "start"
    /\ exitCode = NoExit

\* The environment of the other specifications: config.js has been loaded
\* with an API key and no other variable set.
DevelopmentEnv ==
    [name \in EnvNames |->
       IF name = "ANTHROPIC_API_KEY" THEN Str("sk-key") ELSE Unset]
LoadedConfig ==
    /\ env = DevelopmentEnv
    /\ config = BuildConfig(DevelopmentEnv)
    /\ loadPc = "exported"
    /\ exitCode = NoExit

notConfigVars ==
    <<oracleVars, callVars, outboxVars, leaseVars, batchVars, reconVars,
      pipelineVars, apiVars, factoryVars>>

\* const config = { ... }: every setting is read from process.env.
ReadEnvironment ==
    /\ loadPc = "start"
    /\ config' = BuildConfig(env)
    /\ loadPc' = "built"
    /\ UNCHANGED <<env, exitCode>>
    /\ UNCHANGED notConfigVars

\* if (missing_configs.length > 0) process.exit(1)
CheckRequired ==
    /\ loadPc = "built"
    /\ IF MissingConfigs(config, env) # {}
       THEN loadPc' = "exited" /\ exitCode' = 1
       ELSE loadPc' = "checked" /\ UNCHANGED exitCode
    /\ UNCHANGED <<env, config>>
    /\ UNCHANGED notConfigVars

\* The default Neo4j password is refused in production; otherwise
\* module.exports = config.
CheckProductionPassword ==
    /\ loadPc = "checked"
    /\ IF IsProduction(env) /\ config["NEO4J_PASSWORD"] = Str("password")
       THEN loadPc' = "exited" /\ exitCode' = 1
       ELSE loadPc' = "exported" /\ UNCHANGED exitCode
    /\ UNCHANGED <<env, config>>
    /\ UNCHANGED notConfigVars

NextConfig ==
    \/ ReadEnvironment
    \/ CheckRequired
    \/ CheckProductionPassword

(***************************************************************************)
(* pipelineApi: updatePipelineStatus and startPipelineAsync                *)
(***************************************************************************)
ApiRuns == 1..NumApiRuns
PipelineIds == {"p1", "p2"}

\* An entry of `updates`: the key split at '.', and the value.
Set(key, value) == <<key, value>>

\* The statements startPipelineAsync awaits, in order.  `enter` lists the
\* updatePipelineStatus calls made before the call is awaited, `leave` those
\* made once it has resolved; `agent` is the agent a factory lookup asks for.
Program ==
    << [call |-> "clearAllDatabases", agent |-> "",
        enter |-> << <<Set(<<"phase">>, "clearing_databases"),
                       Set(<<"status">>, "running")>> >>,
        leave |-> << <<>> >>],
       [call |-> "testConnections", agent |-> "",
        enter |-> << <<Set(<<"phase">>, "testing_connections")>> >>,
        leave |-> << <<>> >>],
       [call |-> "createEntityScout", agent |-> "entityScout",
        enter |-> << <<Set(<<"phase">>, "entity_scout"),
                       Set(<<"progress", "entityScout", "status">>,
                           "running")>> >>,
        leave |-> <<>>],
       [call |-> "entityScout.run", agent |-> "", enter |-> <<>>,
        leave |-> <<>>],
       [call |-> "countEntities", agent |-> "", enter |-> <<>>,
        leave |-> << <<Set(<<"progress", "entityScout", "status">>,
                           "completed"),
                       Set(<<"progress", "entityScout", "filesProcessed">>,
                           "count"),
                       Set(<<"progress", "entityScout", "entitiesFound">>,
                           "count")>> >>],
       [call |-> "createGraphBuilder", agent |-> "graphBuilder",
        enter |-> << <<Set(<<"phase">>, "graph_builder"),
                       Set(<<"progress", "graphBuilder", "status">>,
                           "running")>> >>,
        leave |-> <<>>],
       [call |-> "graphBuilder.run", agent |-> "", enter |-> <<>>,
        leave |-> <<>>],
       [call |-> "countGraph", agent |-> "", enter |-> <<>>,
        leave |-> << <<Set(<<"progress", "graphBuilder", "status">>,
                           "completed"),
                       Set(<<"progress", "graphBuilder", "nodesCreated">>,
                           "count"),
                       Set(<<"progress", "graphBuilder",
                             "relationshipsCreated">>, "count")>> >>],
       [call |-> "createRelationshipResolver",
        agent |-> "relationshipResolver",
        enter |-> << <<Set(<<"phase">>, "relationship_resolver"),
                       Set(<<"progress", "relationshipResolver", "status">>,
                           "running")>> >>,
        leave |-> <<>>],
       [call |-> "relationshipResolver.run", agent |-> "", enter |-> <<>>,
        leave |-> <<>>],
       [call |-> "countRelationships", agent |-> "", enter |-> <<>>,
        leave |-> << <<Set(<<"progress", "relationshipResolver", "status">>,
                           "completed"),
                       Set(<<"progress", "relationshipResolver",
                             "relationshipsResolved">>, "count"),
                       Set(<<"progress", "relationshipResolver",
                             "confidenceScore">>, "95")>>,
                     <<Set(<<"status">>, "completed"),
                       Set(<<"phase">>, "completed"),
                       Set(<<"endTime">>, TRUE)>> >>] >>

\* Positions of a run: not started, awaiting Program[k], awaiting
\* factory.cleanup(), returned to its caller.
IdlePc == 0
CleanupPc == Len(Program) + 1
DonePc == Len(Program) + 2

\* The catch block's update.
FailedUpdatesNoStatus(message) ==
    <<Set(<<"phase">>, "failed"), Set(<<"error">>, message),
      Set(<<"endTime">>, TRUE)>>
FailedUpdates(message) ==
    <<Set(<<"status">>, "failed"), Set(<<"phase">>, "failed"),
      Set(<<"error">>, message), Set(<<"endTime">>, TRUE)>>

\* The literal `pipelineStatus`; "" and FALSE stand for fields it does not
\* have yet, lastUpdate counts the updates instead of telling the time.
Pendings(fields) == [f \in fields |-> IF f = "status" THEN "pending" ELSE "0"]
NewStatus(id) ==
    [pipelineId |-> id, status |-> "starting", phase |-> "initialization",
     error |-> "", endTime |-> FALSE, lastUpdate |-> 0, logs |-> <<>>,
     progress |->
       [entityScout |->
          Pendings({"status", "filesProcessed", "entitiesFound"}),
        graphBuilder |->
          Pendings({"status", "nodesCreated", "relationshipsCreated"}),
        relationshipResolver |->
          Pendings({"status", "relationshipsResolved", "confidenceScore"})]]
NoStatus == NewStatus("")

\* One key of `updates` applied to the record: a key with a '.' is split and
\* its first two parts name progress[outer][inner]; any other key names a
\* field of the record.
ApplyKeyWholeOuter(pipeline, key, value) ==
    IF Len(key) > 1
    THEN [pipeline EXCEPT !.progress =
            (key[1] :> (key[2] :> value)) @@ pipeline.progress]
    ELSE (key[1] :> value) @@ pipeline
ApplyKey(pipeline, key, value) ==
    IF Len(key) > 1
    THEN LET outer == key[1]
             inner == key[2]
             object == IF outer \in DOMAIN pipeline.progress
                       THEN pipeline.progress[outer] ELSE <<>>
         IN [pipeline EXCEPT !.progress =
               (outer :> ((inner :> value) @@ object)) @@ pipeline.progress]
    ELSE (key[1] :> value) @@ pipeline

RECURSIVE ApplyUpdates(_, _)
ApplyUpdates(pipeline, updates) ==
    IF updates = <<>> THEN pipeline
    ELSE ApplyUpdates(ApplyKey(pipeline, Head(updates)[1], Head(updates)[2]),
                      Tail(updates))

\* updatePipelineStatus(pipelineId, updates, logMessage) issued by run `by`,
\* on the table of records: the record found under pipelineId is changed.
\* A log entry tells who logged it and the phase the record was left in.
UpdateRecord(pipeline, updates, logMessage, by) ==
    LET updated == ApplyUpdates(pipeline, updates) IN
    [updated EXCEPT !.lastUpdate = @ + 1,
                    !.logs = IF logMessage
                             THEN Append(@, [by |-> by,
                                             phase |-> updated.phase])
                             ELSE @]
UpdateRegistered(recs, registry, id, updates, logMessage, by) ==
    IF registry[id] = 0 THEN recs
    ELSE [recs EXCEPT ![registry[id]] =
            UpdateRecord(@, updates, logMessage, by)]
updatePipelineStatus(recs, registry, id, updates, by) ==
    UpdateRegistered(recs, registry, id, updates, TRUE, by)

\* The calls of broadcastUpdate after n calls of updatePipelineStatus for id.
Announced(sent, registry, id, n) ==
    IF registry[id] = 0 THEN sent ELSE [sent EXCEPT ![id] = @ + n]

\* Several calls in a row.
RECURSIVE UpdateAll(_, _, _, _, _)
UpdateAll(recs, registry, id, calls, by) ==
    IF calls = <<>> THEN recs
    ELSE UpdateAll(updatePipelineStatus(recs, registry, id, Head(calls), by),
                   registry, id, Tail(calls), by)

\* The phases a list of calls writes, in order.
RECURSIVE PhasesIn(_)
PhasesIn(updates) ==
    IF updates = <<>> THEN <<>>
    ELSE (IF Head(updates)[1] = <<"phase">> THEN <<Head(updates)[2]>>
          ELSE <<>>) \o PhasesIn(Tail(updates))
RECURSIVE PhasesWritten(_)
PhasesWritten(calls) ==
    IF calls = <<>> THEN <<>>
    ELSE PhasesIn(Head(calls)) \o PhasesWritten(Tail(calls))

NoProbes == [k \in {"sqlite", "anthropic", "neo4j", "redis"} |-> FALSE]
IdleRun ==
    [pc |-> IdlePc, id |-> "", factory |-> FALSE, agents |-> {},
     error |-> "", failedIn |-> "", tested |-> FALSE,
     probesUp |-> FALSE, allOk |-> TRUE, cleanups |-> 0,
     updates |-> 0, atCleanup |-> 0, wrote |-> <<>>, result |-> "pending"]

NoCall == [n |-> 0, id |-> "", updates |-> <<>>, logMessage |-> FALSE]
InitApi ==
    /\ activePipelines = [id \in PipelineIds |-> 0]
    /\ records = [r \in ApiRuns |-> NoStatus]
    /\ apiRuns = [r \in ApiRuns |-> IdleRun]
    /\ broadcasts = [id \in PipelineIds |-> 0]
    /\ statusCall = NoCall

notApiVars ==
    <<oracleVars, callVars, leaseVars, batchVars, enqueued, publishers,
      leaderLease, crashes, crashedAfterAck, processed, reprocessed,
      configVars, clearPc, run, factoryVars>>
storeVars ==
    <<pois, evidence, reconEvents, relationships, graphOutbox, outbox,
      fileRows, dirSummaries, graph>>

\* The stores as clearAllDatabases leaves them when it resolves.
StoresCleared ==
    /\ relationships' = [key \in RelKeys |-> NoRow]
    /\ evidence' = {}
    /\ pois' = {}
    /\ fileRows' = [path \in Paths |-> NoFile]
    /\ dirSummaries' = {}
    /\ outbox' = <<>>
    /\ graphOutbox' = {}
    /\ reconEvents' = {}
    /\ graph' = {}

\* The calls of Program that reject when the collaborator behind them fails.
\* testConnections catches the error of every probe; a factory lookup throws
\* only when the agent is missing.
Rejecting ==
    {"clearAllDatabases", "entityScout.run", "countEntities",
     "graphBuilder.run", "countGraph", "relationshipResolver.run",
     "countRelationships"}

\* The Error a lookup of the factory throws for a missing agent.
NotInitialized(agent) ==
    CASE agent = "entityScout" -> "EntityScout not initialized"
      [] agent = "graphBuilder" -> "GraphBuilder not initialized"
      [] agent = "relationshipResolver" -> "RelationshipResolver not initialized"

\* What the run throws after Program[k] has resolved ("": nothing): the test
\* of the connections, or the lookup's own test.
ThrownAfter(runState, k, c) ==
    IF Program[k].call = "testConnections" /\ ~RequiredOk(c)
    THEN "Required connections failed"
    ELSE IF Program[k].agent # "" /\ Program[k].agent \notin runState.agents
    THEN NotInitialized(Program[k].agent)
    ELSE ""

\* The run after its catch and finally blocks: the failure is recorded and
\* factory.cleanup() is awaited.
Caught(runState, message) ==
    [runState EXCEPT !.error = message,
                     !.failedIn = runState.wrote[Len(runState.wrote)],
                     !.wrote = Append(@, "failed"),
                     !.updates = @ + 1, !.atCleanup = runState.updates + 1,
                     !.cleanups = @ + 1, !.pc = CleanupPc]

\* The calls of startPipelineAsync are numbered in the order they are made:
\* call r is the next one when every call before it has been made.
CallsInOrder(r) == \A q \in ApiRuns : q < r => apiRuns[q].pc # IdlePc

\* startPipelineAsync up to its first await: the record is set in the map,
\* the factory is constructed, phase 1 is announced, clearAllDatabases is
\* called.
StartRun(r, id) ==
    /\ apiRuns[r].pc = IdlePc
    /\ CallsInOrder(r)
    /\ LET registry == [activePipelines EXCEPT ![id] = r]
           created == [records EXCEPT ![r] = NewStatus(id)]
           calls == Program[1].enter
       IN /\ activePipelines' = registry
          /\ records' = UpdateAll(created, registry, id, calls, r)
          /\ broadcasts' = Announced([broadcasts EXCEPT ![id] = @ + 1],
                                     registry, id, Len(calls))
          /\ apiRuns' = [apiRuns EXCEPT ![r] =
               [IdleRun EXCEPT !.pc = 1, !.id = id, !.factory = TRUE,
                               !.updates = Len(calls),
                               !.wrote = <<"initialization">>
                                           \o PhasesWritten(calls)]]
    /\ UNCHANGED statusCall
    /\ UNCHANGED storeVars
    /\ UNCHANGED notApiVars

\* require('./productionAgentFactory') or the constructor throws: the catch
\* block records the failure, `factory` is undefined in the finally block and
\* the function returns.
StartThrows(r, id) ==
    /\ apiRuns[r].pc = IdlePc
    /\ CallsInOrder(r)
    /\ LET registry == [activePipelines EXCEPT ![id] = r]
           created == [records EXCEPT ![r] = NewStatus(id)]
           message == "Cannot find module"
       IN /\ activePipelines' = registry
          /\ records' = updatePipelineStatus(created, registry, id,
                                             FailedUpdates(message), r)
          /\ broadcasts' = Announced([broadcasts EXCEPT ![id] = @ + 1],
                                     registry, id, 1)
          /\ apiRuns' = [apiRuns EXCEPT ![r] =
               [IdleRun EXCEPT !.pc = DonePc, !.id = id, !.error = message,
                               !.failedIn = "initialization",
                               !.allOk = FALSE, !.updates = 1,
                               !.wrote = <<"initialization", "failed">>,
                               !.result = "returned"]]
    /\ UNCHANGED statusCall
    /\ UNCHANGED storeVars
    /\ UNCHANGED notApiVars

\* The call the run awaits resolves (testConnections with the results c), and
\* the run goes on to its next await: the next call of Program, or
\* factory.cleanup() after a throw or after the last statement.
AwaitResolves(r) ==
    /\ apiRuns[r].pc \in 1..Len(Program)
    /\ \E c \in ConnectionResults :
         LET k == apiRuns[r].pc
             me == apiRuns[r]
             tests == Program[k].call = "testConnections"
             seen == IF tests
                     THEN [me EXCEPT !.tested = TRUE,
                                     !.probesUp = /\ c["sqlite"]
                                                  /\ c["anthropic"]
                                                  /\ c["neo4j"],
                                     !.allOk = @ /\ \A p \in DOMAIN c : c[p]]
                     ELSE me
             thrown == ThrownAfter(me, k, c)
             calls == Program[k].leave
                        \o (IF k < Len(Program) THEN Program[k + 1].enter
                            ELSE <<>>)
         IN /\ tests \/ c = NoProbes
            /\ IF thrown # ""
               THEN /\ records' = updatePipelineStatus(records,
                          activePipelines, me.id, FailedUpdates(thrown), r)
                    /\ broadcasts' = Announced(broadcasts, activePipelines,
                                               me.id, 1)
                    /\ apiRuns' = [apiRuns EXCEPT ![r] = Caught(seen, thrown)]
               ELSE /\ records' = UpdateAll(records, activePipelines, me.id,
                                            calls, r)
                    /\ broadcasts' = Announced(broadcasts, activePipelines,
                                               me.id, Len(calls))
                    /\ apiRuns' = [apiRuns EXCEPT ![r] =
                         [seen EXCEPT
                            !.updates = @ + Len(calls),
                            !.wrote = @ \o PhasesWritten(calls),
                            !.pc = IF k < Len(Program) THEN k + 1
                                   ELSE CleanupPc,
                            !.cleanups = IF k < Len(Program) THEN @
                                         ELSE @ + 1,
                            !.atCleanup = IF k < Len(Program) THEN @
                                          ELSE me.updates + Len(calls)]]
    /\ IF Program[apiRuns[r].pc].call = "clearAllDatabases"
       THEN StoresCleared ELSE UNCHANGED storeVars
    /\ UNCHANGED <<activePipelines, statusCall>>
    /\ UNCHANGED notApiVars

\* The call the run awaits rejects: catch, then finally.
AwaitRejects(r) ==
    /\ apiRuns[r].pc \in 1..Len(Program)
    /\ Program[apiRuns[r].pc].call \in Rejecting
    /\ LET message == Program[apiRuns[r].pc].call IN
       /\ records' = updatePipelineStatus(records, activePipelines,
                        apiRuns[r].id, FailedUpdates(message), r)
       /\ apiRuns' = [apiRuns EXCEPT ![r] =
                        Caught([apiRuns[r] EXCEPT !.allOk = FALSE], message)]
       /\ broadcasts' = Announced(broadcasts, activePipelines,
                                  apiRuns[r].id, 1)
    /\ UNCHANGED <<activePipelines, statusCall>>
    /\ UNCHANGED storeVars
    /\ UNCHANGED notApiVars

\* factory.cleanup() resolves and startPipelineAsync returns; the results of
\* testConnections were a local of the call.
CleanupResolves(r) ==
    /\ apiRuns[r].pc = CleanupPc
    /\ apiRuns' = [apiRuns EXCEPT ![r].pc = DonePc, ![r].result = "returned",
                                  ![r].tested = FALSE,
                                  ![r].probesUp = FALSE]
    /\ UNCHANGED <<activePipelines, records, broadcasts, statusCall>>
    /\ UNCHANGED storeVars
    /\ UNCHANGED notApiVars

\* factory.cleanup() rethrows what closing a connection threw: the promise of
\* startPipelineAsync rejects with it.
CleanupRejects(r) ==
    /\ apiRuns[r].pc = CleanupPc
    /\ apiRuns' = [apiRuns EXCEPT ![r].pc = DonePc, ![r].result = "rejected",
                                  ![r].allOk = FALSE, ![r].tested = FALSE,
                                  ![r].probesUp = FALSE]
    /\ UNCHANGED <<activePipelines, records, broadcasts, statusCall>>
    /\ UNCHANGED storeVars
    /\ UNCHANGED notApiVars

\* The `updates` a caller outside a run passes: none, plain keys, keys with
\* one '.' and with two, a key that names no part of progress yet, and the
\* key 'logs'.
UpdateChoices ==
    << <<>>,
       <<Set(<<"phase">>, "entity_scout")>>,
       <<Set(<<"status">>, "running"), Set(<<"phase">>, "graph_builder")>>,
       <<Set(<<"entityScout", "status">>, "running")>>,
       <<Set(<<"progress", "entityScout", "status">>, "running")>>,
       <<Set(<<"extra", "status">>, "running")>>,
       <<Set(<<"logs">>, <<>>)>> >>

\* updatePipelineStatus(id, updates, logMessage) called from outside a run
\* (run 0), for a pipelineId that may or may not be registered.
UpdateStatus(id, k, logMessage) ==
    /\ statusCall.n < MaxStatusCalls
    /\ statusCall' = [n |-> statusCall.n + 1, id |-> id,
                      updates |-> UpdateChoices[k], logMessage |-> logMessage]
    /\ records' = UpdateRegistered(records, activePipelines, id,
                                   UpdateChoices[k], logMessage, 0)
    /\ broadcasts' = Announced(broadcasts, activePipelines, id, 1)
    /\ UNCHANGED <<activePipelines, apiRuns>>
    /\ UNCHANGED storeVars
    /\ UNCHANGED notApiVars

NextStatus ==
    \/ \E r \in ApiRuns : \E id \in PipelineIds : StartRun(r, id)
    \/ \E id \in PipelineIds : \E k \in 1..Len(UpdateChoices) :
         \E logMessage \in BOOLEAN : UpdateStatus(id, k, logMessage)

NextApi ==
    \/ \E r \in ApiRuns : \E id \in PipelineIds : StartRun(r, id)
    \/ \E r \in ApiRuns : \E id \in PipelineIds : StartThrows(r, id)
    \/ \E r \in ApiRuns : AwaitResolves(r)
    \/ \E r \in ApiRuns : AwaitRejects(r)
    \/ \E r \in ApiRuns : CleanupResolves(r)
    \/ \E r \in ApiRuns : CleanupRejects(r)

(***************************************************************************)
(* ProductionAgentFactory: the shared dependencies, the calls that use     *)
(* them, stopPipeline and cleanup                                          *)
(***************************************************************************)
FactoryCalls == 1..NumFactoryCalls
Dependencies ==
    {"dbManager", "queueManager", "cacheClient", "llmClient", "neo4jDriver"}
Operations ==
    {"createAgents", "createWorkers", "startPipeline", "clearAllDatabases",
     "testConnections"}
\* Two of the six workers createWorkers constructs, by their key in this.workers.
WorkerNames == {"fileanalysisworker", "validationworker"}

\* The dependencies an operation reads once it is past its guard.
Uses(op) ==
    CASE op = "createAgents" ->
           {"queueManager", "cacheClient", "dbManager", "neo4jDriver"}
      [] op = "createWorkers" ->
           {"queueManager", "dbManager", "cacheClient", "llmClient"}
      [] op = "startPipeline" -> Dependencies
      [] op = "clearAllDatabases" -> {"dbManager", "cacheClient", "neo4jDriver"}
      [] op = "testConnections" ->
           {"dbManager", "llmClient", "neo4jDriver", "cacheClient"}

\* Those it calls a method of outside a try block of its own: a null one
\* makes it throw a TypeError.  The constructors of agents and workers only
\* store what they are given; testConnections catches the error of each probe.
Dereferences(op) ==
    CASE op \in {"createAgents", "startPipeline"} -> {"dbManager"}
      [] op = "createWorkers" -> {}
      [] op = "clearAllDatabases" -> {"dbManager", "cacheClient", "neo4jDriver"}
      [] op = "testConnections" -> {}

IdleCall ==
    [op |-> "", pc |-> "idle", used |-> FALSE, missing |-> {},
     initAtUse |-> FALSE]
NothingStarted ==
    [workers |-> [w \in WorkerNames |-> 0], agents |-> FALSE,
     liveWorkers |-> {}, publishers |-> 0]
NoShutdown ==
    [phase |-> "no", registered |-> {}, attempted |-> {}, failed |-> {},
     threw |-> FALSE, cleanupThrew |-> FALSE]

InitFactory ==
    /\ deps = [d \in Dependencies |-> "null"]
    /\ initDone = FALSE
    /\ factoryCalls = [c \in FactoryCalls |-> IdleCall]
    /\ started = NothingStarted
    /\ shutdown = NoShutdown

notFactoryVars ==
    <<oracleVars, callVars, outboxVars, leaseVars, batchVars, reconVars,
      pipelineVars, configVars, apiVars>>

\* The guard at the head of every operation.
NeedsInitialize(d) == d["dbManager"] = "null"

\* An operation is called: `if (!this.dbManager) await this.initialize()`.
\* initialize() sets dbManager and queueManager and then awaits
\* queueManager.connect().
Enter(c, op) ==
    /\ factoryCalls[c].pc = "idle"
    /\ \A b \in FactoryCalls : b < c => factoryCalls[b].pc # "idle"
    /\ IF NeedsInitialize(deps)
       THEN /\ deps' = [deps EXCEPT !["dbManager"] = "open",
                                    !["queueManager"] = "set"]
            /\ factoryCalls' = [factoryCalls EXCEPT ![c].op = op,
                                                    ![c].pc = "connecting"]
       ELSE /\ factoryCalls' = [factoryCalls EXCEPT ![c].op = op,
                                                    ![c].pc = "ready"]
            /\ UNCHANGED deps
    /\ UNCHANGED <<initDone, started, shutdown>>
    /\ UNCHANGED notFactoryVars

\* connect() resolves: initialize() sets the three other dependencies and
\* returns.
ConnectResolves(c) ==
    /\ factoryCalls[c].pc = "connecting"
    /\ deps' = [d \in Dependencies |->
                  IF d = "dbManager" THEN deps[d]
                  ELSE IF d = "queueManager"
                  THEN (IF deps[d] = "set" THEN "open" ELSE deps[d])
                  ELSE "open"]
    /\ initDone' = TRUE
    /\ factoryCalls' = [factoryCalls EXCEPT ![c].pc = "ready"]
    /\ UNCHANGED <<started, shutdown>>
    /\ UNCHANGED notFactoryVars

\* connect() rejects: initialize() and the operation reject, with dbManager
\* and queueManager left as they were set.
ConnectRejects(c) ==
    /\ factoryCalls[c].pc = "connecting"
    /\ factoryCalls' = [factoryCalls EXCEPT ![c].pc = "threw"]
    /\ UNCHANGED <<deps, initDone, started, shutdown>>
    /\ UNCHANGED notFactoryVars

\* What the call notes when its operation reads the dependencies.
Using(call) ==
    [call EXCEPT !.used = TRUE,
                 !.missing = {d \in Uses(call.op) : deps[d] # "open"},
                 !.initAtUse = initDone]

\* What createAgents, createWorkers and startPipeline leave behind: the
\* agents and the workers are set in the maps under their names, startPipeline
\* constructs and starts an outbox publisher that it keeps no reference to.
StartedBy(st, c, op) ==
    [st EXCEPT
       !.agents = @ \/ op \in {"createAgents", "startPipeline"},
       !.workers = IF op \in {"createWorkers", "startPipeline"}
                   THEN [w \in WorkerNames |-> c] ELSE @,
       !.liveWorkers = IF op \in {"createWorkers", "startPipeline"}
                       THEN @ \cup {<<c, w>> : w \in WorkerNames} ELSE @,
       !.publishers = IF op = "startPipeline" THEN @ + 1 ELSE @]
Starts(op) == op \in {"createAgents", "createWorkers", "startPipeline"}

\* The operation runs to its end.
UseReturns(c) ==
    /\ factoryCalls[c].pc = "ready"
    /\ \A d \in Dereferences(factoryCalls[c].op) : deps[d] # "null"
    /\ factoryCalls' = [factoryCalls EXCEPT
                          ![c] = [Using(@) EXCEPT !.pc = "returned"]]
    /\ started' = StartedBy(started, c, factoryCalls[c].op)
    /\ shutdown' = IF Starts(factoryCalls[c].op) THEN NoShutdown ELSE shutdown
    /\ UNCHANGED <<deps, initDone>>
    /\ UNCHANGED notFactoryVars

\* The operation throws: on a null dependency, or because a store or an agent
\* failed; startPipeline may throw as late as in entityScout.run(), with the
\* workers and the publisher started.
UseThrows(c, late) ==
    /\ factoryCalls[c].pc = "ready"
    /\ factoryCalls[c].op # "testConnections"
    /\ late => factoryCalls[c].op = "startPipeline"
    /\ late => \A d \in Dereferences(factoryCalls[c].op) : deps[d] # "null"
    /\ factoryCalls' = [factoryCalls EXCEPT
                          ![c] = [Using(@) EXCEPT !.pc = "threw"]]
    /\ started' = IF late THEN StartedBy(started, c, factoryCalls[c].op)
                  ELSE started
    /\ shutdown' = IF late THEN NoShutdown ELSE shutdown
    /\ UNCHANGED <<deps, initDone>>
    /\ UNCHANGED notFactoryVars

\* stopPipeline: close() of every worker of this.workers, stop() of every
\* agent, each in a try block of its own; `failing` are the workers whose
\* close() throws.
Instances(names) == {<<started.workers[w], w>> : w \in names}
StopPipeline(failing) ==
    /\ LET registered == {w \in WorkerNames : started.workers[w] # 0} IN
       /\ failing \subseteq registered
       /\ started' = [started EXCEPT
                        !.liveWorkers = @ \ Instances(registered \ failing)]
       /\ shutdown' = [phase |-> "stopped", registered |-> registered,
                       attempted |-> registered,
                       failed |-> Instances(failing), threw |-> FALSE,
                       cleanupThrew |-> FALSE]
    /\ UNCHANGED <<deps, initDone, factoryCalls>>
    /\ UNCHANGED notFactoryVars

\* cleanup: the connections that are set are closed, the fields keep their
\* objects, and the two maps are cleared.  The llmClient has nothing to close.
Cleanup ==
    /\ deps' = [d \in Dependencies |->
                  IF d = "llmClient" \/ deps[d] = "null" THEN deps[d]
                  ELSE "closed"]
    /\ started' = [started EXCEPT !.workers = [w \in WorkerNames |-> 0],
                                  !.agents = FALSE]
    /\ shutdown' = [shutdown EXCEPT
                      !.phase = IF @ = "stopped" THEN "cleaned" ELSE @]
    /\ UNCHANGED <<initDone, factoryCalls>>
    /\ UNCHANGED notFactoryVars

\* closeConnections() of the queue manager rejects: cleanup logs and rethrows,
\* and nothing after it is closed or cleared.
CleanupThrows ==
    /\ deps["queueManager"] # "null"
    /\ ~shutdown.cleanupThrew
    /\ shutdown' = [shutdown EXCEPT !.cleanupThrew = TRUE]
    /\ UNCHANGED <<deps, initDone, factoryCalls, started>>
    /\ UNCHANGED notFactoryVars

NextFactory ==
    \/ \E c \in FactoryCalls : \E op \in Operations : Enter(c, op)
    \/ \E c \in FactoryCalls : ConnectResolves(c)
    \/ \E c \in FactoryCalls : ConnectRejects(c)
    \/ \E c \in FactoryCalls : UseReturns(c)
    \/ \E c \in FactoryCalls : \E late \in BOOLEAN : UseThrows(c, late)
    \/ \E failing \in SUBSET WorkerNames : StopPipeline(failing)
    \/ Cleanup
    \/ CleanupThrows

Init ==
    InitOracle /\ InitCalls /\ InitOutbox /\ InitLease /\ IdleBatch /\ InitStore
    /\ InitPipeline /\ LoadedConfig /\ InitApi /\ InitFactory

InitPacking ==
    InitOracle /\ InitCalls /\ InitOutbox /\ InitLease /\ InitBatch /\ InitStore
    /\ InitPipeline /\ LoadedConfig /\ InitApi /\ InitFactory

InitReconciliation ==
    InitOracle /\ InitCalls /\ InitOutbox /\ InitLease /\ IdleBatch /\ InitAnalysed
    /\ InitPipeline /\ LoadedConfig /\ InitApi /\ InitFactory

InitLoading ==
    InitOracle /\ InitCalls /\ InitOutbox /\ InitLease /\ IdleBatch /\ InitStore
    /\ InitPipeline /\ InitConfig /\ InitApi /\ InitFactory

Next == NextOracle

Spec == Init /\ [][Next]_vars

SpecOutbox == Init /\ [][NextOutbox]_vars

SpecLeader == Init /\ [][NextLeader]_vars

SpecLease == Init /\ [][NextLease]_vars

SpecBatch == InitPacking /\ [][NextBatchPacking]_vars

SpecRetry == Init /\ [][NextCall]_vars

SpecRecon == InitReconciliation /\ [][NextRecon]_vars

SpecPipeline == Init /\ [][NextPipeline]_vars

SpecConfig == InitLoading /\ [][NextConfig]_vars

SpecApi == Init /\ [][NextApi]_vars
SpecStatus == Init /\ [][NextStatus]_vars
SpecFactory == Init /\ [][NextFactory]_vars

\* The oracle client with the scheduling its environment gives it: every HTTP
\* attempt ends (response, error or timeout), every timer set by setTimeout
\* fires, and every queued promise callback is run.  Nothing obliges a caller
\* to make a call.
\* One rejection of each class of _isRetryableError is enough here.
CallerErrors == {HttpError(503), HttpError(400)}
ScheduleCaller ==
    /\ _scheduleRequest(NumCallers)
    /\ UNCHANGED notOracleVars
AttemptEnds(r) ==
    AttemptSucceeds(r) \/ \E error \in CallerErrors : AttemptFails(r, error)
NextFair ==
    \/ ScheduleCaller
    \/ \E r \in RequestIds : AttemptSucceeds(r)
    \/ \E r \in RequestIds : \E error \in CallerErrors : AttemptFails(r, error)
    \/ \E r \in RequestIds : BackoffElapsed(r)
    \/ \E r \in RequestIds : Release(r)
FairOracle ==
    \A r \in RequestIds :
      /\ WF_vars(AttemptEnds(r))
      /\ WF_vars(BackoffElapsed(r))
      /\ WF_vars(Release(r))
SpecFair == Init /\ [][NextFair]_vars /\ FairOracle

(***************************************************************************)
(* The oracle client's scheduler                                           *)
(***************************************************************************)
\* C1: for every interleaving of calls and of request completions, the number
\* of oracle requests in flight stays between 0 and maxConcurrentRequests (4).
C1_ConcurrencyCap == activeRequests \in 0..maxConcurrentRequests

\* The cap binds: four requests hold a slot, one waits, one has completed.
C1_Witness ==
    /\ activeRequests = maxConcurrentRequests
    /\ Len(requestQueue) > 0
    /\ \E r \in RequestIds :
         requests[r].phase \in {"resolved", "rejected"} /\ ~requests[r].slot

\* C2: requests are started in the order in which they were scheduled (ids are
\* given in scheduling order): the start order is increasing and no request
\* that still waits was scheduled before one that has already been started.
C2_FifoAdmission ==
    /\ StrictlyIncreasing(startOrder)
    /\ \A j \in 1..Len(startOrder) : \A k \in 1..Len(requestQueue) :
         startOrder[j] < requestQueue[k]

\* Two requests had to wait for the cap, one behind the other, and both have
\* been started since.
C2_Witness ==
    \E a, b \in RequestIds :
      /\ a < b
      /\ requests[a].waited /\ requests[b].waited
      /\ requests[a].phase \notin {"new", "queued"}
      /\ requests[b].phase \notin {"new", "queued"}

(***************************************************************************)
(* The outbox publisher                                                    *)
(***************************************************************************)
Published(r) == outbox[r].status = "published"
RowIds == 1..Len(outbox)

\* C3 as stated: every row with status 'published' has had exactly one
\* successful enqueue, also after a crash between broker ack and status update.
C3_ExactlyOnce == \A r \in RowIds : Published(r) => Count(enqueued, r) = 1

\* C3, amended: every published row has had at least one successful enqueue,
\* and exactly one unless the publisher crashed between that row's broker ack
\* and its status update (one publisher instance running).
C3_AtLeastOnce ==
    \A r \in RowIds :
      Published(r) =>
        /\ Count(enqueued, r) >= 1
        /\ r \notin crashedAfterAck => Count(enqueued, r) = 1

\* A row was acked, the publisher crashed before the status update, and after
\* the restart the row was enqueued again and then marked published.
C3_Witness ==
    \E r \in RowIds :
      Published(r) /\ r \in crashedAfterAck /\ Count(enqueued, r) = 2

\* No enqueue of a row after the moment it was marked published.
NeverEnqueuedAgain ==
    \A r \in RowIds :
      Published(r) =>
        \A k \in 1..Len(enqueued) : enqueued[k] = r => k <= outbox[r].pubAt

\* C4 as stated: per queue the events are enqueued in strictly increasing id
\* order over the whole run, and a published row is never enqueued again.
C4_GlobalOrder ==
    /\ \A q \in QueueNames : StrictlyIncreasing(OfQueue(enqueued, q))
    /\ NeverEnqueuedAgain

\* C4, amended: within one publisher tick the events of a queue are enqueued
\* in strictly increasing id order (across ticks a failed lower id follows a
\* higher one), and a row that has reached 'published' is not polled again, so
\* the publisher never enqueues it again.
C4_OrderWithinTick ==
    /\ \A p \in PublisherIds : \A q \in QueueNames :
         StrictlyIncreasing(OfQueue(publishers[p].tickLog, q))
    /\ NeverEnqueuedAgain

\* A lower id was enqueued after a higher id of its queue (in a later tick),
\* the running tick has enqueued two rows of that queue, and a row is published.
C4_Witness ==
    \E q \in QueueNames :
      /\ ~StrictlyIncreasing(OfQueue(enqueued, q))
      /\ \E p \in PublisherIds : Len(OfQueue(publishers[p].tickLog, q)) >= 2
      /\ \E r \in RowIds : Published(r)

\* A publisher that was started and takes itself for the leader: it polls and
\* enqueues.
Active(p) == publishers[p].pc # "none" /\ publishers[p].leader

\* C5: at any time at most one outbox publisher is active, for any sequence of
\* startPipeline calls and any lease expiry/renewal interleaving.
C5_SinglePublisher == Cardinality({p \in PublisherIds : Active(p)}) <= 1

EmittedBy(w) == {k \in 1..Len(emitted) : emitted[k].worker = w}

\* The k-th enqueue was made when the lease was no longer the worker's own
\* (Stale), and when another worker had acquired it (Preempted).
Stale(k) == emitted[k].owner # Token(emitted[k].worker)
Preempted(k) == Stale(k) /\ emitted[k].owner # 0

\* C7 as stated: wherever W1 is paused (also between its ownership check and
\* its enqueue), it emits no batch after losing ownership, and no batch is
\* enqueued by two workers.
C7_NoStaleNoDuplicate ==
    /\ \A k \in 1..Len(emitted) : ~Preempted(k)
    /\ \A j, k \in 1..Len(emitted) : j # k => emitted[j].batch # emitted[k].batch

\* C7, amended: a worker that lost the lease is refused by its next
\* check-on-write and emits nothing further; only a batch whose check had
\* passed before the lease was lost can still be enqueued afterwards, so each
\* worker emits at most one such batch, as its last, and a batch is enqueued
\* twice only when one of the two enqueues was of that kind.
C7_AtMostOneStale ==
    /\ \A w \in WorkerIds : \A j, k \in EmittedBy(w) :
         Stale(j) => k <= j
    /\ \A j, k \in 1..Len(emitted) :
         (j # k /\ emitted[j].batch = emitted[k].batch)
            => (Stale(j) \/ Stale(k))

\* W1 was preempted between its check and its enqueue: its batch went out after
\* the lease was lost and duplicates a batch of W2, and W1 has since been
\* refused and has stopped.
C7_Witness ==
    \E j, k \in 1..Len(emitted) :
      /\ emitted[j].worker = 1 /\ Preempted(j)
      /\ emitted[k].worker = 2 /\ ~Stale(k)
      /\ emitted[j].batch = emitted[k].batch
      /\ workers[1].pc = "aborted"

(***************************************************************************)
(* Batch packing                                                           *)
(***************************************************************************)
FileIndices(n) == [k \in 1..n |-> k - 1]
BatchIds == 1..Len(batches)

\* Every consumed file is in exactly one batch (the open one included), in
\* input order, and completion leaves no open batch and no file behind.
ExactlyOnceInOrder ==
    /\ Flatten(batches) \o current = FileIndices(pos)
    /\ walkerDone => (current = <<>> /\ pos = Len(files))

\* C8 as stated: for every sequence of sizes, a file above the limit included,
\* every batch has at most MAX_BATCH_TOKENS tokens and MAX_BATCH_FILES files and
\* every consumed file is in exactly one batch, in input order.
C8_BatchBounds ==
    /\ \A b \in BatchIds :
         /\ Sum(files, batches[b]) <= maxBatchTokens
         /\ Len(batches[b]) <= maxBatchFiles
    /\ ExactlyOnceInOrder

\* C8, amended: every batch is non-empty, has at most MAX_BATCH_FILES files,
\* and has at most MAX_BATCH_TOKENS tokens unless it consists of one file that
\* alone exceeds the limit; every consumed file is in exactly one batch, in
\* input order, the last partial batch being emitted at completion.
C8_BoundsButOversized ==
    /\ \A b \in BatchIds :
         /\ Len(batches[b]) >= 1
         /\ Len(batches[b]) <= maxBatchFiles
         /\ \/ Sum(files, batches[b]) <= maxBatchTokens
            \/ /\ Len(batches[b]) = 1
               /\ files[batches[b][1] + 1] > maxBatchTokens
    /\ ExactlyOnceInOrder

\* A completed walk that emitted a full two-file batch and a batch holding a
\* single file above the limit.
C8_Witness ==
    /\ walkerDone
    /\ Len(files) = MaxFileCount
    /\ \E b \in BatchIds : Len(batches[b]) = 2
    /\ \E b \in BatchIds : Sum(files, batches[b]) > maxBatchTokens

\* The boundary input: sizes [t-1, 2, t-1] with limit t, packed to the end.
BoundaryCase ==
    /\ walkerDone
    /\ files = <<maxBatchTokens - 1, 2, maxBatchTokens - 1>>

\* C9 as stated: [t-1, 2, t-1] is packed as [[0],[1,2]] when two files per
\* batch are allowed and as [[0],[1],[2]] otherwise.
C9_BoundaryAsStated ==
    BoundaryCase =>
      batches = IF maxBatchFiles >= 2 THEN << <<0>>, <<1, 2>> >>
                ELSE << <<0>>, <<1>>, <<2>> >>

\* C9, amended: [t-1, 2, t-1] is packed as [[0],[1],[2]] whatever the file
\* count allowed: files 1 and 2 have t+1 tokens together.
C9_BoundaryThreeBatches ==
    BoundaryCase => batches = << <<0>>, <<1>>, <<2>> >>

\* The boundary input packed with two files per batch allowed.
C9_Witness == BoundaryCase /\ maxBatchFiles >= 2

(***************************************************************************)
(* The oracle client's retry classification                                *)
(***************************************************************************)
\* C10: an attempt that hits its timeout is classified as retryable, so the
\* request is rejected on a timeout only when no attempt remains.
C10_TimeoutRetried ==
    \A r \in RequestIds :
      (requests[r].phase = "rejected" /\ requests[r].error = TimeoutError)
         => requests[r].i = retries - 1

(***************************************************************************)
(* The oracle client's retry loop, seen from one call()                    *)
(***************************************************************************)
\* The retryable errors as the interface names them.
RetryableAsStated(e) ==
    \/ e.status >= 500
    \/ e.code \in {"ECONNRESET", "ETIMEDOUT", "ENOTFOUND", "EAI_AGAIN"}
Succeeded(e) == e.status \in 200..299
AllRetryable(log) == \A k \in 1..Len(log) : RetryableAsStated(log[k])
Last(log) == log[Len(log)]

\* C11: a failed attempt is followed by another attempt only if its error has
\* status >= 500 or one of the four connection codes; an attempt that fails
\* with a 4xx status is the request's last one, and the request is rejected
\* with that error.
C11_RetryClassification ==
    \A r \in RequestIds : \A k \in 1..Len(attemptLog[r]) :
      LET e == attemptLog[r][k] IN
      /\ (~Succeeded(e) /\ k < Len(attemptLog[r])) => RetryableAsStated(e)
      /\ e.status \in 400..499 =>
            /\ k = Len(attemptLog[r])
            /\ requests[r].phase = "rejected"
            /\ settlements[r] = 1
            /\ outcome[r] = AfterReject(e)

\* A 503 was retried, the 400 that followed was not.
C11_Witness ==
    \E r \in RequestIds :
      /\ attemptLog[r] = <<HttpError(503), HttpError(400)>>
      /\ requests[r].phase = "rejected"

\* The slot accounting of a request: activeRequests counts it once from its
\* start by _processQueue to its .finally callback, retries included.
OneSlotThroughout ==
    /\ \A r \in RequestIds :
         /\ held[r] = (IF requests[r].slot THEN 1 ELSE 0)
         /\ requests[r].phase \in {"inflight", "backoff"} => requests[r].slot
    /\ activeRequests = Cardinality({r \in RequestIds : held[r] = 1})

\* While fewer than 5 attempts have been made and all of them failed
\* retryably, the promise is unsettled and the request goes on.
StillTrying ==
    \A r \in RequestIds :
      (attemptLog[r] # <<>> /\ AllRetryable(attemptLog[r])
         /\ Len(attemptLog[r]) < retries)
        => /\ settlements[r] = 0
           /\ requests[r].phase \in {"inflight", "backoff"}
           /\ outcome[r] = Pending

\* C12 as stated: when k < 5 retryable failures are followed by a successful
\* attempt, call() returns, the promise was settled exactly once, and the
\* request held exactly one slot throughout.
C12_FlakeRecovers ==
    /\ OneSlotThroughout
    /\ StillTrying
    /\ \A r \in RequestIds :
         (attemptLog[r] # <<>> /\ Succeeded(Last(attemptLog[r])))
           => /\ settlements[r] = 1
              /\ outcome[r].result = "returned"

\* C12, amended: as above, and call() returns when the 2xx body carries
\* content[0]; on a 2xx body without content it throws, although the promise
\* of _scheduleRequest was resolved.
C12_FlakeRecoversWithContent ==
    /\ OneSlotThroughout
    /\ StillTrying
    /\ \A r \in RequestIds :
         (attemptLog[r] # <<>> /\ Succeeded(Last(attemptLog[r])))
           => /\ settlements[r] = 1
              /\ requests[r].phase = "resolved"
              /\ outcome[r] = AfterResolve(Last(attemptLog[r]).message)
              /\ (Last(attemptLog[r]).message = "message"
                    <=> outcome[r].result = "returned")

\* 503, 503, 200: call() has returned and the slot is still held, once.
C12_Witness ==
    \E r \in RequestIds :
      /\ attemptLog[r] =
           <<HttpError(503), HttpError(503), Success("message")>>
      /\ outcome[r].result = "returned"
      /\ settlements[r] = 1
      /\ held[r] = 1
      /\ activeRequests = 1

\* C13: a request makes at most 5 HTTP attempts; when all 5 fail retryably it
\* is rejected with the error of the 5th and call() throws; and a request
\* whose attempts all failed retryably is not rejected before the 5th.
C13_RetryBudget ==
    \A r \in RequestIds :
      /\ Len(attemptLog[r]) <= retries
      /\ (Len(attemptLog[r]) = retries /\ AllRetryable(attemptLog[r]))
           => /\ requests[r].phase = "rejected"
              /\ settlements[r] = 1
              /\ outcome[r] = AfterReject(attemptLog[r][retries])
      /\ (outcome[r].result = "threw" /\ AllRetryable(attemptLog[r]))
           => Len(attemptLog[r]) = retries

\* Five retryable failures, the last of another kind than the first.
C13_Witness ==
    \E r \in RequestIds :
      /\ Len(attemptLog[r]) = retries
      /\ AllRetryable(attemptLog[r])
      /\ attemptLog[r][1] = HttpError(503)
      /\ attemptLog[r][retries] = SocketError("ECONNRESET")
      /\ outcome[r] = AfterReject(SocketError("ECONNRESET"))

(***************************************************************************)
(* Reconciliation                                                          *)
(***************************************************************************)
Calls == [from |-> "a", to |-> "b", type |-> "calls"]
References == [from |-> "a", to |-> "b", type |-> "references"]
EventOf(key) == [key |-> key, rows |-> RowsOf(evidence, key)]

\* Scenario 5: the only evidence is one intra_file row (a, b, calls) with
\* confidence 0.9 and one global row (a, b, references) with confidence 0.6,
\* and both keys have been reconciled on it.
ConflictingEvidence ==
    /\ evidence = {EvidenceRow(Calls, "intra_file", 9),
                   EvidenceRow(References, "global", 6)}
    /\ \A key \in RelKeys : EventOf(key) \in processed

\* C14 as stated: on the conflicting evidence the two keys are evaluated
\* independently and the run ends with two distinct accepted relationships.
C14_BothAccepted ==
    ConflictingEvidence => \A key \in RelKeys : relationships[key] # NoRow

\* C14, amended: each key is evaluated on its own rows, C = 0.63 for calls and
\* C = 0.24 for references; neither key has two sources, deterministic
\* evidence or C >= 0.85, so no relationship is accepted and no graph-builder
\* event is written (pooled, the two rows would count as two sources).
C14_NeitherAccepted ==
    ConflictingEvidence =>
      /\ Combine(RowsOf(evidence, Calls)) = 63 * (One \div Full)
      /\ Combine(RowsOf(evidence, References)) = 24 * (One \div Full)
      /\ \A key \in RelKeys :
           /\ EventOf(key).rows \subseteq {row \in AllRows : row.key = key}
           /\ relationships[key] = NoRow
      /\ graphOutbox = {}

C14_Witness == ConflictingEvidence /\ reprocessed = {}

\* The scores of the accepting events handled so far for `key`.
AcceptedScores(key) ==
    {Combine(e.rows) : e \in {x \in processed : x.key = key /\ Accepts(x.rows)}}
Highest(scores) == CHOOSE c \in scores : \A d \in scores : c >= d

\* C15: the accepted relationships and their scores are a function of the set
\* of events handled, whatever the number of times and the order in which
\* they were handled: a key is accepted iff an accepting event for it was
\* handled, its confidence_score is the highest score among these events, and
\* it has a graph-builder event iff it is accepted.
C15_Idempotent ==
    \A key \in RelKeys :
      /\ relationships[key] =
           (IF AcceptedScores(key) = {} THEN NoRow
            ELSE Highest(AcceptedScores(key)))
      /\ key \in graphOutbox <=> relationships[key] # NoRow

\* An accepting event was handled twice, after an event with a higher score
\* for the same key, and the higher score is still the one stored.
C15_Witness ==
    \E e \in reprocessed : \E f \in processed :
      /\ e.key = f.key
      /\ Accepts(e.rows)
      /\ Combine(f.rows) > Combine(e.rows)
      /\ relationships[e.key] = Combine(f.rows)

\* C16: whatever row is added to the evidence of a key, the combined
\* confidence of the key does not decrease, and it lies in [0, 1].
C16_CombinerMonotonic ==
    \A key \in RelKeys :
      LET rows == RowsOf(evidence, key)
          before == Combine(rows)
      IN /\ before >= 0 /\ before <= One
         /\ \A s \in Sources : \A c \in Confidences :
              LET after == Combine(rows \cup {EvidenceRow(key, s, c)})
              IN after >= before /\ after <= One

\* A source has reported the same key twice with different confidences.
C16_Witness ==
    \E row, other \in evidence :
      /\ row.key = other.key /\ row.source = other.source
      /\ row.confidence < other.confidence
      /\ Combine(RowsOf(evidence, row.key)) \in 1..(One - 1)

(***************************************************************************)
(* The stores across runs                                                  *)
(***************************************************************************)
\* C17: in every state, the intermediate states of clearAllDatabases
\* included, each row of relationships has both endpoints in pois and at
\* least one row of relationship_evidence with its key.
C17_RelationshipIntegrity ==
    \A key \in RelKeys :
      relationships[key] # NoRow =>
        /\ key.from \in pois /\ key.to \in pois
        /\ RowsOf(evidence, key) # {}

C19_ClearedBeforeScout == run.scout => run.cleared = Stores

IsPositiveIntegerText(t) ==
    /\ t # <<>>
    /\ \A k \in 1..Len(t) : t[k] \in DOMAIN Digit
    /\ \E k \in 1..Len(t) : t[k] # "0"
LoadEnded == loadPc \in {"exported", "exited"}

\* C23: once the configuration module has loaded, INGESTOR_BATCH_SIZE and
\* INGESTOR_INTERVAL_MS are positive integers, and a load whose environment
\* gives one of them a value that is not a positive integer (text that is not
\* a number, zero, a negative number) never gets past the checks: it exits
\* with a code other than 0.
C23_NumbersValidated ==
    /\ loadPc = "exported" =>
         \A name \in NumberSettings : config[name] \in Nat \ {0}
    /\ \A name \in NumberSettings :
         env[name].set /\ ~IsPositiveIntegerText(env[name].chars) =>
           /\ loadPc \notin {"checked", "exported"}
           /\ loadPc = "exited" => exitCode # 0

\* C24: in production the module exports a config only if the Neo4j password
\* in effect is not 'password' and REDIS_PASSWORD is set; in every other
\* production case the load never exports and ends with process.exit(1).
Hardened ==
    config["NEO4J_PASSWORD"] # Str("password") /\ Truthy(env["REDIS_PASSWORD"])
C24_ProductionHardening ==
    IsProduction(env) /\ loadPc # "start" =>
      /\ loadPc = "exported" => Hardened
      /\ ~Hardened => /\ loadPc # "exported"
                      /\ LoadEnded => loadPc = "exited" /\ exitCode = 1

\* A production load that had every required setting, REDIS_PASSWORD
\* included, and was ended by the test of the default Neo4j password.
C24_Witness ==
    /\ IsProduction(env)
    /\ loadPc = "exited" /\ exitCode = 1
    /\ MissingConfigs(config, env) = {}
    /\ config["NEO4J_PASSWORD"] = Str("password")

\* C25: when one of the six required settings is empty after the defaults
\* were applied, the load ends with process.exit(1) and never exports;
\* otherwise, outside production, the load does not exit.
EmptyRequired == {key \in BaseRequired : ~Truthy(config[key])}
C25_MissingIsFatal ==
    loadPc # "start" =>
      /\ EmptyRequired # {} =>
           /\ loadPc \in {"built", "exited"}
           /\ loadPc = "exited" => exitCode = 1
      /\ EmptyRequired = {} /\ ~IsProduction(env) =>
           /\ loadPc # "exited"
           /\ exitCode = NoExit

\* A load outside production that exited because ANTHROPIC_API_KEY, which
\* has no default, was set to the empty string.
C25_Witness ==
    /\ ~IsProduction(env)
    /\ env["ANTHROPIC_API_KEY"] = Str("")
    /\ loadPc = "exited" /\ exitCode = 1

(***************************************************************************)
(* Retry backoff of the oracle client                                      *)
(***************************************************************************)
Doubling == <<2000, 4000, 8000, 16000>>

Registered(r) == records[activePipelines[apiRuns[r].id]]
RunStarted(r) == apiRuns[r].pc # IdlePc
Position(call) == CHOOSE k \in 1..Len(Program) : Program[k].call = call

C22_FailureReported ==
    \A r \in ApiRuns :
      apiRuns[r].error # "" /\ apiRuns[r].pc = CleanupPc =>
        /\ records[r].status = "failed"
        /\ records[r].error = apiRuns[r].error
        /\ records[r].endTime
        /\ records[r].phase = apiRuns[r].failedIn
        /\ apiRuns[r].result # "rejected"

\* C22, amended: the step in which a phase of a run throws leaves the record
\* registered under the run's pipelineId with status 'failed', phase
\* 'failed', the error message and an end timestamp, and does not reject the
\* call; the call is rejected only by a step of factory.cleanup().
C22_FailureRecorded ==
    [][\A r \in ApiRuns :
         /\ apiRuns[r].error = "" /\ apiRuns'[r].error # "" =>
              LET rec == records'[activePipelines'[apiRuns'[r].id]] IN
              /\ rec.status = "failed"
              /\ rec.phase = "failed"
              /\ rec.error = apiRuns'[r].error
              /\ rec.endTime
              /\ apiRuns'[r].result # "rejected"
         /\ apiRuns[r].result # "rejected" /\ apiRuns'[r].result = "rejected"
              => apiRuns[r].pc = CleanupPc]_vars

\* A run that threw in phase testing_connections and whose failure is on the
\* registered record.
C22_Witness ==
    \E r \in ApiRuns :
      /\ apiRuns[r].failedIn = "testing_connections"
      /\ apiRuns[r].error = "Required connections failed"
      /\ Registered(r).status = "failed"
      /\ Registered(r).phase = "failed"

\* C27: a run whose testConnections reported sqlite, anthropic and neo4j as
\* reachable has not failed on them and has entered phase entity_scout, and a
\* run fails with 'Required connections failed' only when one of the three
\* probes failed.
C27_ConnectionGate ==
    \A r \in ApiRuns :
      apiRuns[r].tested =>
        /\ apiRuns[r].probesUp =>
             /\ apiRuns[r].error = ""
             /\ \E k \in 1..Len(apiRuns[r].wrote) :
                  apiRuns[r].wrote[k] = "entity_scout"
        /\ apiRuns[r].error = "Required connections failed" =>
             ~apiRuns[r].probesUp

\* C28: no lookup of an agent throws 'not initialized', and a run in which
\* every collaborator succeeded (the factory was constructed, no awaited call
\* rejected, every probe of testConnections was true, cleanup resolved) ends
\* with status 'completed'.
C28_AgentsRegistered ==
    \A r \in ApiRuns :
      /\ \A k \in 1..Len(Program) :
           Program[k].agent # "" =>
             apiRuns[r].error # NotInitialized(Program[k].agent)
      /\ apiRuns[r].pc = DonePc /\ apiRuns[r].allOk =>
           records[r].status = "completed"

\* The order of the phases; 'completed' and 'failed' end it.
PhaseRank(phase) ==
    CASE phase = "initialization" -> 1
      [] phase = "clearing_databases" -> 2
      [] phase = "testing_connections" -> 3
      [] phase = "entity_scout" -> 4
      [] phase = "graph_builder" -> 5
      [] phase = "relationship_resolver" -> 6
      [] phase \in {"completed", "failed"} -> 7
NeverBackwards(phases) ==
    \A j, k \in 1..Len(phases) :
      j < k => PhaseRank(phases[j]) <= PhaseRank(phases[k])
LoggedPhases(rec) == [k \in 1..Len(rec.logs) |-> rec.logs[k].phase]

\* C29: the record of a run that has returned (a run whose factory was
\* constructed, so that there is something to clean up) has status
\* 'completed' or 'failed', factory.cleanup was called exactly once, after
\* the run's last status update, and the phase of a record never moves
\* backwards.
C29_TerminalAndCleaned ==
    \A r \in ApiRuns :
      /\ (apiRuns[r].pc = DonePc /\ apiRuns[r].factory) =>
           /\ records[r].status \in {"completed", "failed"}
           /\ apiRuns[r].cleanups = 1
           /\ apiRuns[r].atCleanup = apiRuns[r].updates
      /\ NeverBackwards(LoggedPhases(records[r]))

\* C30: every status update is logged on the record of the run that issued
\* it, also when two runs overlap, and a run awaits clearAllDatabases only
\* while the stores hold no data of another run that has not ended.
StoresEmpty ==
    /\ pois = {} /\ evidence = {} /\ dirSummaries = {} /\ graph = {}
    /\ \A path \in Paths : fileRows[path] = NoFile
    /\ \A key \in RelKeys : relationships[key] = NoRow
C30_RegistryIsolation ==
    /\ \A x \in ApiRuns :
         \A k \in 1..Len(records[x].logs) : records[x].logs[k].by = x
    /\ \A r, q \in ApiRuns :
         /\ r # q
         /\ apiRuns[r].pc = Position("clearAllDatabases")
         /\ apiRuns[q].pc \in 1..CleanupPc
         => StoresEmpty

\* The requests _processQueue has started whose promise is not yet settled,
\* and those that hold a slot of the cap.
Unsettled == {r \in RequestIds : requests[r].phase \in {"inflight", "backoff"}}
SlotHolders == {r \in RequestIds : requests[r].slot}
Settled(r) == requests[r].phase \in {"resolved", "rejected"}

\* C32 as stated: while requests wait in the queue activeRequests is at the
\* cap, and activeRequests is the number of started requests whose promise
\* has not settled.
C32_WorkConserving ==
    /\ requestQueue # <<>> => activeRequests = maxConcurrentRequests
    /\ activeRequests = Cardinality(Unsettled)

\* C32, amended: while requests wait in the queue activeRequests is at the
\* cap, and activeRequests is the number of started requests that have not
\* yet run their finally callback: every unsettled request holds a slot, a
\* settled one holds its slot until that callback has run, and every settled
\* request was started once.
C32_SlotsUntilFinally ==
    /\ requestQueue # <<>> => activeRequests = maxConcurrentRequests
    /\ activeRequests = Cardinality(SlotHolders)
    /\ Unsettled \subseteq SlotHolders
    /\ \A r \in SlotHolders : r \in Unsettled \/ Settled(r)
    /\ \A r \in RequestIds :
         Settled(r) => Len(SelectSeq(startOrder, LAMBDA x : x = r)) = 1

\* Requests wait in the queue while a request whose promise has settled still
\* holds one of the slots.
C32_Witness ==
    /\ requestQueue # <<>>
    /\ activeRequests = maxConcurrentRequests
    /\ \E r \in SlotHolders : Settled(r)

\* C33: provided every HTTP attempt ends, every request that was scheduled is
\* eventually started and its promise is eventually resolved or rejected:
\* again and again every request scheduled so far has been started and has
\* settled (a settled request stays settled).
Served(r) ==
    /\ \E k \in 1..Len(startOrder) : startOrder[k] = r
    /\ Settled(r)
C33_NoStarvation ==
    []<>(\A r \in RequestIds : requests[r].phase # "new" => Served(r))

\* A request that had to wait in the queue has settled.
C33_Witness ==
    \E r \in RequestIds : requests[r].waited /\ Settled(r)

\* The keys of `updates`: the plain ones, and <<outer, inner>> of the others.
PlainKeys(updates) ==
    {updates[k][1][1] : k \in {j \in 1..Len(updates) : Len(updates[j][1]) = 1}}
DottedKeys(updates) ==
    {<<updates[k][1][1], updates[k][1][2]>> :
       k \in {j \in 1..Len(updates) : Len(updates[j][1]) > 1}}
Differs(old, new, f) ==
    \/ f \notin DOMAIN old
    \/ f \notin DOMAIN new
    \/ old[f] # new[f]
Extends(old, new) ==
    /\ Len(new) >= Len(old)
    /\ SubSeq(new, 1, Len(old)) = old

\* What a call from outside a run may change of the record it finds: the
\* top-level fields other than those of `exempt` only when a plain key names
\* them, progress[outer][inner] only when a key 'outer.inner' names it.
OnlyNamed(old, new, updates, exempt) ==
    /\ \A f \in ((DOMAIN old) \cup (DOMAIN new)) \ exempt :
         Differs(old, new, f) => f \in PlainKeys(updates)
    /\ "progress" \notin PlainKeys(updates) =>
         \A o \in (DOMAIN old.progress) \cup (DOMAIN new.progress) :
           o \in DOMAIN old.progress /\ o \in DOMAIN new.progress =>
             \A i \in (DOMAIN old.progress[o]) \cup (DOMAIN new.progress[o]) :
               Differs(old.progress[o], new.progress[o], i)
                 => <<o, i>> \in DottedKeys(updates)
    /\ \A o \in (DOMAIN old.progress) \ (DOMAIN new.progress) :
         "progress" \in PlainKeys(updates)
    /\ \A o \in (DOMAIN new.progress) \ (DOMAIN old.progress) :
         \/ "progress" \in PlainKeys(updates)
         \/ \A i \in DOMAIN new.progress[o] : <<o, i>> \in DottedKeys(updates)

\* The step of a call of updatePipelineStatus from outside a run.
OutsideCall == statusCall'.n = statusCall.n + 1
Found == activePipelines[statusCall'.id]

\* C35 as stated: a call for a pipelineId that is not registered changes no
\* record and broadcasts nothing; a call for a registered one changes, of the
\* record found, only the top-level fields its plain keys name and the
\* progress[outer][inner] its keys 'outer.inner' name, the logs of that record
\* only grow by appending, and no other record changes.
C35_OnlyWhatIsNamed ==
    [][OutsideCall =>
         IF Found = 0
         THEN records' = records /\ broadcasts' = broadcasts
         ELSE /\ OnlyNamed(records[Found], records'[Found],
                           statusCall'.updates, {"progress", "logs"})
              /\ Extends(records[Found].logs, records'[Found].logs)
              /\ \A y \in ApiRuns : y # Found => records'[y] = records[y]]_vars

\* C35, amended: as above, except that every call for a registered pipeline
\* also refreshes lastUpdate, and that the plain key 'logs' replaces the logs.
C35_NamedAndLastUpdate ==
    [][OutsideCall =>
         IF Found = 0
         THEN records' = records /\ broadcasts' = broadcasts
         ELSE /\ OnlyNamed(records[Found], records'[Found],
                           statusCall'.updates,
                           {"progress", "logs", "lastUpdate"})
              /\ records'[Found].lastUpdate # records[Found].lastUpdate
              /\ \/ "logs" \in PlainKeys(statusCall'.updates)
                 \/ Extends(records[Found].logs, records'[Found].logs)
              /\ \A y \in ApiRuns : y # Found => records'[y] = records[y]]_vars

\* The latest of the calls from outside a run had a key with a '.' and was
\* applied to a registered pipeline, while the other pipelineId is not
\* registered.
C35_Witness ==
    /\ statusCall.n = MaxStatusCalls
    /\ activePipelines[statusCall.id] # 0
    /\ DottedKeys(statusCall.updates) # {}
    /\ \E id \in PipelineIds : activePipelines[id] = 0

\* C31: whenever an operation of the factory has used the shared
\* dependencies, an initialize() had run to its end and every dependency the
\* operation uses was set and open.
C31_InitialisedBeforeUse ==
    \A c \in FactoryCalls :
      factoryCalls[c].used =>
        /\ factoryCalls[c].initAtUse
        /\ factoryCalls[c].missing = {}

\* C34: stopPipeline tries to close every worker of this.workers and does not
\* throw when a close() throws, and once stopPipeline and then cleanup have
\* run, no outbox publisher is running and no worker is, other than those
\* whose close() threw.
C34_StoppedAndClean ==
    /\ shutdown.phase # "no" =>
         /\ shutdown.attempted = shutdown.registered
         /\ ~shutdown.threw
    /\ shutdown.phase = "cleaned" =>
         /\ started.publishers = 0
         /\ started.liveWorkers \subseteq shutdown.failed

====
